---- MODULE Spec2Model ----
(***************************************************************************)
(* A model of the gclang bytecode virtual machine of x.cc: the Expression  *)
(* compiler, the dispatch loop of VirtualMachine::run with its three       *)
(* stacks, and the mark-and-sweep collector.  Two virtual machines run the *)
(* same compiled blob side by side, one per setting of MODE_GC, so that    *)
(* the two collection cadences can be compared.                            *)
(***************************************************************************)
EXTENDS Integers, Sequences, FiniteSets, TLC

(***************************************************************************)
(* Modes (x.cc:12-18).                                                     *)
(***************************************************************************)
DEBUG == 18761
PROD == 391
MODE_GC == DEBUG
Modes == {DEBUG, PROD}

(***************************************************************************)
(* Bounds of the model.                                                    *)
(*   MaxDepth : the retstack depth at which retstack.push_back can no      *)
(*              longer get memory (std::bad_alloc leaves run()).           *)
(***************************************************************************)
MaxDepth == 3

(***************************************************************************)
(* Int (long long, x.cc:41).  TLC's integers are 32 bits wide, so an Int   *)
(* is kept as two decimal limbs: value = hi * IntBase + lo.  No            *)
(* instruction computes with an Int; it is only pushed and printed.        *)
(***************************************************************************)
IntBase == 1000000000

MkInt(h, l) == [hi |-> h, lo |-> l]

Int0 == MkInt(0, 0)

\* std::ostream << long long, for a non-negative Int: its decimal digits.
RECURSIVE ZeroPad(_, _)
ZeroPad(s, width) == IF Len(s) >= width THEN s ELSE ZeroPad("0" \o s, width)

IntStr(n) ==
  IF n.hi = 0 THEN ToString(n.lo)
  ELSE ToString(n.hi) \o ZeroPad(ToString(n.lo), 9)

(***************************************************************************)
(* Value (x.cc:73-92).  obj = 0 is the null pointer.                       *)
(***************************************************************************)
Value(t, n, o) == [type |-> t, i |-> n, obj |-> o]

NilValue == Value("NIL", Int0, 0)

IntegerValue(n) == Value("INTEGER", n, 0)

FunctionValue(o) == Value("FUNCTION", Int0, o)

truthy(v) == v.type # "NIL"

isPrimitive(v) == v.type = "NIL" \/ v.type = "INTEGER"

isObject(v) == ~isPrimitive(v)

(***************************************************************************)
(* Blob and Instruction (x.cc:105-180).  An instruction's payload union is *)
(* kept as three fields of which the opcode selects one.  Blobs are        *)
(* immutable after compilation and are held by value.                      *)
(***************************************************************************)
NoBlob == [args |-> <<>>, instructions |-> <<>>]

Instruction(t) == [type |-> t, integer |-> 0, name |-> "", blob |-> NoBlob, imm |-> Int0]

InstructionInt(t, n) == [Instruction(t) EXCEPT !.integer = n]

InstructionImm(t, n) == [Instruction(t) EXCEPT !.imm = n]

InstructionName(t, s) == [Instruction(t) EXCEPT !.name = s]

InstructionBlob(t, b) == [Instruction(t) EXCEPT !.blob = b]

(***************************************************************************)
(* Expression builders (x.cc:182-289).  children[1] is the C++ children[0].*)
(***************************************************************************)
Expr(t, n, ns, cs) == [type |-> t, integer |-> n, names |-> ns, children |-> cs]

nilexpr == Expr("NIL", Int0, <<>>, <<>>)

intexpr(n) == Expr("INTEGER", n, <<>>, <<>>)

funcexpr(args, body) == Expr("LAMBDA", Int0, args, <<body>>)

declexpr(s, v) == Expr("DECLARE", Int0, <<s>>, <<v>>)

callexpr(f, args) == Expr("CALL", Int0, <<>>, <<f>> \o args)

varexpr(s) == Expr("VARIABLE", Int0, <<s>>, <<>>)

blockexpr(exprs) == Expr("BLOCK", Int0, <<>>, exprs)

ifexpr(cond, a, b) == Expr("IF", Int0, <<>>, <<cond, a, b>>)

printexpr(v) == Expr("DEBUG_PRINT", Int0, <<>>, <<v>>)

(***************************************************************************)
(* Expression::compile(Blob&) (x.cc:395-453): ins is b.instructions, the   *)
(* result is b.instructions after the call.  Instruction indices are the   *)
(* C++ ones (from 0): instruction k is ins[k + 1].                         *)
(***************************************************************************)
RECURSIVE compile(_, _)
RECURSIVE compileArgs(_, _, _)
RECURSIVE compileArgsReversed(_, _, _)
RECURSIVE compileBlockChildren(_, _, _)
RECURSIVE compileBlockChildrenNoPop(_, _, _)

\* Mutant of compileArgs: the arguments are compiled last to first.
compileArgsReversed(children, i, ins) ==
  IF i >= Len(children) THEN ins
  ELSE compileArgsReversed(children, i + 1,
         compile(children[Len(children) + 1 - i], ins))

\* CALL: for (i = 1; i < children.size(); i++) children[i].compile(b)
compileArgs(children, i, ins) ==
  IF i >= Len(children) THEN ins
  ELSE compileArgs(children, i + 1, compile(children[i + 1], ins))

\* Mutant of compileBlockChildren: the POP after a child is not emitted.
compileBlockChildrenNoPop(children, i, ins) ==
  IF i >= Len(children) - 1 THEN ins
  ELSE compileBlockChildrenNoPop(children, i + 1, compile(children[i + 1], ins))

\* BLOCK: for (i = 0; i < children.size() - 1; i++) { compile; POP }
compileBlockChildren(children, i, ins) ==
  IF i >= Len(children) - 1 THEN ins
  ELSE compileBlockChildren(children, i + 1,
         Append(compile(children[i + 1], ins), Instruction("POP")))

\* Mutant of compileIf: the ELSE operand is patched to one past
\* instructions.size().
compileIfElsePastEnd(e, ins) ==
  LET c0 == compile(e.children[1], ins)
      ifpos == Len(c0)
      c1 == compile(e.children[2], Append(c0, Instruction("IF")))
      elsepos == Len(c1)
      c2 == compile(e.children[3], Append(c1, Instruction("ELSE")))
  IN [c2 EXCEPT ![ifpos + 1].integer = elsepos + 1,
                ![elsepos + 1].integer = Len(c2) + 1]

\* Mutant of compileIf: the IF operand is patched to elsepos, the index of
\* the ELSE instruction itself.
compileIfJumpsToElse(e, ins) ==
  LET c0 == compile(e.children[1], ins)
      ifpos == Len(c0)
      c1 == compile(e.children[2], Append(c0, Instruction("IF")))
      elsepos == Len(c1)
      c2 == compile(e.children[3], Append(c1, Instruction("ELSE")))
  IN [c2 EXCEPT ![ifpos + 1].integer = elsepos,
                ![elsepos + 1].integer = Len(c2)]

compileIf(e, ins) ==
  LET c0 == compile(e.children[1], ins)
      ifpos == Len(c0)
      c1 == compile(e.children[2], Append(c0, Instruction("IF")))
      elsepos == Len(c1)
      c2 == compile(e.children[3], Append(c1, Instruction("ELSE")))
  IN [c2 EXCEPT ![ifpos + 1].integer = elsepos + 1,
                ![elsepos + 1].integer = Len(c2)]

compile(e, ins) ==
  CASE e.type = "NIL" -> Append(ins, Instruction("PUSH_NIL"))
    [] e.type = "INTEGER" -> Append(ins, InstructionImm("PUSH_INTEGER", e.integer))
    [] e.type = "VARIABLE" -> Append(ins, InstructionName("PUSH_VARIABLE", e.names[1]))
    [] e.type = "LAMBDA" ->
         Append(ins, InstructionBlob("PUSH_FUNCTION",
           [args |-> e.names, instructions |-> compile(e.children[1], <<>>)]))
    [] e.type = "DECLARE" ->
         Append(compile(e.children[1], ins),
                InstructionName("DECLARE_VARIABLE", e.names[1]))
    [] e.type = "CALL" ->
         Append(compile(e.children[1], compileArgs(e.children, 1, ins)),
                InstructionInt("CALL", Len(e.children) - 1))
    [] e.type = "DEBUG_PRINT" ->
         Append(compile(e.children[1], ins), Instruction("DEBUG_PRINT"))
    [] e.type = "BLOCK" ->
         IF e.children = <<>> THEN Append(ins, Instruction("PUSH_NIL"))
         ELSE Append(compile(e.children[Len(e.children)],
                       compileBlockChildren(e.children, 0,
                         Append(ins, Instruction("BLOCK_START")))),
                     Instruction("BLOCK_END"))
    [] e.type = "IF" -> compileIf(e, ins)

\* Expression::compile() (x.cc:200-204): a fresh Blob with no parameters.
compileBlob(e) == [args |-> <<>>, instructions |-> compile(e, <<>>)]

(***************************************************************************)
(* The inputs: what main (x.cc:615-635) hands to the VM.  Scenario1 to     *)
(* Scenario5 are the end-to-end scenarios; MainProgram is the expression   *)
(* main builds.  The Raw inputs are hand-built blobs, which the            *)
(* VirtualMachine constructor accepts like any other: the reserved         *)
(* opcodes, handlers run on a value stack that is too short, and IF and    *)
(* ELSE operands outside the blob.                                         *)
(***************************************************************************)
I(n) == MkInt(0, n)

Scenario1 == blockexpr(<<printexpr(intexpr(I(124124))), printexpr(intexpr(I(7)))>>)

Scenario2 == blockexpr(<<printexpr(ifexpr(nilexpr, intexpr(I(11111)), intexpr(I(222222))))>>)

Scenario3 == blockexpr(<<declexpr("x", intexpr(I(55371))), printexpr(varexpr("x"))>>)

Scenario4 ==
  blockexpr(<<
    declexpr("f", funcexpr(<<"a">>, blockexpr(<<printexpr(varexpr("a"))>>))),
    callexpr(varexpr("f"), <<intexpr(I(777777))>>),
    callexpr(varexpr("f"), <<intexpr(MkInt(9, 999999999))>>),
    printexpr(nilexpr)>>)

Scenario5 ==
  blockexpr(<<
    declexpr("mk", funcexpr(<<"x">>, funcexpr(<<>>, printexpr(varexpr("x"))))),
    callexpr(callexpr(varexpr("mk"), <<intexpr(I(42))>>), <<>>)>>)

MainProgram ==
  blockexpr(<<
    printexpr(intexpr(I(124124))),
    printexpr(intexpr(I(7))),
    printexpr(ifexpr(nilexpr, intexpr(I(11111)), intexpr(I(222222)))),
    declexpr("x", intexpr(I(55371))),
    printexpr(varexpr("x")),
    declexpr("f", funcexpr(<<"a">>, blockexpr(<<printexpr(varexpr("a"))>>))),
    callexpr(varexpr("f"), <<intexpr(I(777777))>>),
    callexpr(varexpr("f"), <<intexpr(MkInt(9, 999999999))>>),
    printexpr(nilexpr)>>)

\* block(declare(x, 1), declare(x, 2)): scenario 6.
Redeclare == blockexpr(<<declexpr("x", intexpr(I(1))), declexpr("x", intexpr(I(2)))>>)

\* call(lambda([a, b], nil), [int 1])
ArityMismatch == callexpr(funcexpr(<<"a", "b">>, nilexpr), <<intexpr(I(1))>>)

\* The same with a callee that would print its first parameter.
ArityPrint == callexpr(funcexpr(<<"a", "b">>, printexpr(varexpr("a"))), <<intexpr(I(1))>>)

NotCallable == callexpr(intexpr(I(3)), <<>>)

NotCallableNil == callexpr(nilexpr, <<nilexpr>>)

\* A lambda declared in a block that calls itself through its own name.
SelfCall ==
  blockexpr(<<declexpr("f", funcexpr(<<>>, callexpr(varexpr("f"), <<>>))),
              callexpr(varexpr("f"), <<>>)>>)

\* y is declared only in the caller's block; f was created outside it.
DynamicName ==
  blockexpr(<<declexpr("f", funcexpr(<<>>, varexpr("y"))),
              blockexpr(<<declexpr("y", intexpr(I(1))),
                          callexpr(varexpr("f"), <<>>)>>)>>)

\* The same with the closure of scenario 5: the callee is made by a call
\* that has returned.
DynamicNameEscaped ==
  blockexpr(<<declexpr("mk", funcexpr(<<"x">>, funcexpr(<<>>, varexpr("y")))),
              blockexpr(<<declexpr("y", intexpr(I(1))),
                          callexpr(callexpr(varexpr("mk"), <<intexpr(I(42))>>), <<>>)>>)>>)

\* The closure of scenario 5 with a body that declares y in a block, leaves
\* the block and then reads y.
EscapedBlock ==
  blockexpr(<<declexpr("mk", funcexpr(<<"x">>, funcexpr(<<>>,
                blockexpr(<<blockexpr(<<declexpr("y", intexpr(I(1)))>>),
                            varexpr("y")>>)))),
              callexpr(callexpr(varexpr("mk"), <<intexpr(I(42))>>), <<>>)>>)

\* A call whose two arguments, callee expression and callee body each
\* print a different number.
EvalOrder ==
  blockexpr(<<declexpr("f", funcexpr(<<"a", "b">>, printexpr(intexpr(I(4))))),
              callexpr(blockexpr(<<printexpr(intexpr(I(3))), varexpr("f")>>),
                       <<printexpr(intexpr(I(1))), printexpr(intexpr(I(2)))>>)>>)

\* Two parameters, nested calls, IF on INTEGER 0, an empty block: every
\* Expression variant is executed.
TwoArgs ==
  blockexpr(<<
    declexpr("g", funcexpr(<<"p">>, printexpr(varexpr("p")))),
    declexpr("f", funcexpr(<<"a", "b">>,
       blockexpr(<<printexpr(varexpr("a")),
                   callexpr(varexpr("g"), <<varexpr("b")>>),
                   ifexpr(intexpr(I(0)), blockexpr(<<>>), varexpr("a"))>>))),
    callexpr(varexpr("f"), <<intexpr(I(10)), intexpr(I(20))>>),
    nilexpr>>)

\* A closure kept in a variable of an environment that stays on envstack.
Counter ==
  blockexpr(<<
    declexpr("mk", funcexpr(<<"x">>, funcexpr(<<"y">>,
       ifexpr(varexpr("y"), printexpr(varexpr("x")), printexpr(varexpr("y")))))),
    declexpr("h", callexpr(varexpr("mk"), <<intexpr(I(5))>>)),
    callexpr(varexpr("h"), <<nilexpr>>),
    callexpr(varexpr("h"), <<intexpr(I(0))>>)>>)

DuplicateParams == callexpr(funcexpr(<<"a", "a">>, nilexpr), <<intexpr(I(1)), intexpr(I(2))>>)

UnknownName == printexpr(varexpr("z"))

\* x declared in a block and again in a block inside it.
Shadowing ==
  blockexpr(<<declexpr("x", intexpr(I(1))),
              blockexpr(<<declexpr("x", intexpr(I(2))), printexpr(varexpr("x"))>>),
              printexpr(varexpr("x"))>>)

Expressions ==
  [Scenario1 |-> Scenario1, Scenario2 |-> Scenario2, Scenario3 |-> Scenario3,
   Scenario4 |-> Scenario4, Scenario5 |-> Scenario5, MainProgram |-> MainProgram,
   Redeclare |-> Redeclare, ArityMismatch |-> ArityMismatch,
   NotCallable |-> NotCallable, SelfCall |-> SelfCall,
   DynamicName |-> DynamicName, DynamicNameEscaped |-> DynamicNameEscaped,
   TwoArgs |-> TwoArgs, Counter |-> Counter,
   DuplicateParams |-> DuplicateParams, UnknownName |-> UnknownName,
   Shadowing |-> Shadowing, ArityPrint |-> ArityPrint,
   NotCallableNil |-> NotCallableNil, EscapedBlock |-> EscapedBlock,
   EvalOrder |-> EvalOrder]

\* The body of the closure RawCallShort makes: one parameter, value NIL.
RawCallee == [args |-> <<"a">>, instructions |-> <<Instruction("PUSH_NIL")>>]

RawBlobs ==
  [RawInvalid |-> [args |-> <<>>, instructions |-> <<Instruction("INVALID")>>],
   RawTailcall |-> [args |-> <<>>,
                    instructions |-> <<Instruction("PUSH_NIL"), InstructionInt("TAILCALL", 0)>>],
   RawPop |-> [args |-> <<>>, instructions |-> <<Instruction("POP")>>],
   RawPrint |-> [args |-> <<>>, instructions |-> <<Instruction("DEBUG_PRINT")>>],
   RawIf |-> [args |-> <<>>, instructions |-> <<InstructionInt("IF", 1)>>],
   RawDeclare |-> [args |-> <<>>,
                   instructions |-> <<InstructionName("DECLARE_VARIABLE", "x")>>],
   RawCall |-> [args |-> <<>>, instructions |-> <<InstructionInt("CALL", 0)>>],
   RawCallShort |-> [args |-> <<>>,
                     instructions |-> <<InstructionBlob("PUSH_FUNCTION", RawCallee),
                                        InstructionInt("CALL", 1)>>],
   RawElseOut |-> [args |-> <<>>,
                   instructions |-> <<Instruction("PUSH_NIL"), InstructionInt("ELSE", 5)>>],
   RawIfOut |-> [args |-> <<>>,
                 instructions |-> <<Instruction("PUSH_NIL"), InstructionInt("IF", -1)>>]]

Compiled == DOMAIN Expressions

Programs == Compiled \cup DOMAIN RawBlobs

BlobOf(p) == IF p \in Compiled THEN compileBlob(Expressions[p]) ELSE RawBlobs[p]

(***************************************************************************)
(* The layout of what compile emits (x.cc:395-453): for an expression      *)
(* compiled into blob b from index s on, the site of the expression and of *)
(* every expression inside it.  A site is the blob, the index of the first *)
(* instruction, the index just past the last one and the variant; an IF    *)
(* site also has the indices of its IF and ELSE instructions.              *)
(***************************************************************************)
Size(e) == Len(compile(e, <<>>))

LambdaBlob(e) == [args |-> e.names, instructions |-> compile(e.children[1], <<>>)]

Site(e, b, s, ip, ep) ==
  [blob |-> b, first |-> s, last |-> s + Size(e), type |-> e.type,
   ifpos |-> ip, elsepos |-> ep]

RECURSIVE SitesOf(_, _, _)
RECURSIVE SitesOfSeq(_, _, _, _, _)

\* children[i..] laid out one after the other from s on, gap instructions
\* between two of them.
SitesOfSeq(children, i, b, s, gap) ==
  IF i > Len(children) THEN {}
  ELSE SitesOf(children[i], b, s)
       \cup SitesOfSeq(children, i + 1, b, s + Size(children[i]) + gap, gap)

SitesOf(e, b, s) ==
  CASE e.type = "LAMBDA" ->
         {Site(e, b, s, -1, -1)} \cup SitesOf(e.children[1], LambdaBlob(e), 0)
    [] e.type \in {"DECLARE", "DEBUG_PRINT"} ->
         {Site(e, b, s, -1, -1)} \cup SitesOf(e.children[1], b, s)
    [] e.type = "CALL" ->
         {Site(e, b, s, -1, -1)}
         \cup SitesOfSeq(e.children, 2, b, s, 0)
         \cup SitesOf(e.children[1], b, s + Size(e) - 1 - Size(e.children[1]))
    [] e.type = "BLOCK" ->
         {Site(e, b, s, -1, -1)} \cup SitesOfSeq(e.children, 1, b, s + 1, 1)
    [] e.type = "IF" ->
         LET p_if == s + Size(e.children[1])
             p_else == p_if + 1 + Size(e.children[2])
         IN {Site(e, b, s, p_if, p_else)}
            \cup SitesOf(e.children[1], b, s)
            \cup SitesOf(e.children[2], b, p_if + 1)
            \cup SitesOf(e.children[3], b, p_else + 1)
    [] OTHER -> {Site(e, b, s, -1, -1)}

\* The sites of input p.
SiteTable == [p \in Compiled |-> SitesOf(Expressions[p], BlobOf(p), 0)]

Sites(p) == IF p \in Compiled THEN SiteTable[p] ELSE {}

(***************************************************************************)
(* State.  Every field of VirtualMachine (x.cc:307-326) is a function of   *)
(* the mode m of the VM it belongs to.                                     *)
(*   heap[m]   the objects make<T> has created, by address 1, 2, ...; a    *)
(*             deleted object keeps its last contents with freed = TRUE    *)
(*   out[m]    the lines written to std::cout                              *)
(*   fault[m]  "" while run() is executing, else the message of the        *)
(*             exception that left run(), or "SIGSEGV"                     *)
(*   phase[m]  the position inside the loop body of run(): "gc" before     *)
(*             the collection step, "exec" before the handler              *)
(* History variables, read only by the properties:                         *)
(*   prog           the input both VMs were built from                     *)
(*   steps[m]       completed loop iterations                              *)
(*   danglingRead[m] a handler has read a deleted object                   *)
(*   collections[m] completed calls of markAndSweep                        *)
(*   marks[m]       for every expression whose instructions are being      *)
(*                  executed: its site, the retstack depth and the value   *)
(*                  stack and envstack at its first instruction, the       *)
(*                  instructions run since, and the value its IF tested    *)
(*   frames[m]      for every call that has not returned: the instruction  *)
(*                  after the CALL, the value stack below the arguments    *)
(*                  and envstack, all as they were when CALL executed      *)
(*   completed[m]   the variants of the expressions whose last instruction *)
(*                  has been executed                                      *)
(***************************************************************************)
VARIABLES allManagedObjects, evalstack, retstack, envstack, pc, threshold,
          heap, out, fault, phase, prog, steps, danglingRead, collections,
          marks, frames, completed

\* The program of gclang.cc, a second translation unit with a main of its
\* own: its globals, the locals of main and the history of its run, as one
\* record (the fields are listed where the program is modelled).
VARIABLE gclang

vmvars == <<allManagedObjects, evalstack, retstack, envstack, pc, threshold,
            heap, out, fault, phase, prog, steps, danglingRead, collections,
            marks, frames, completed>>

vars == <<vmvars, gclang>>

Set(f, m, v) == [f EXCEPT ![m] = v]

(***************************************************************************)
(* Objects (x.cc:45-71).                                                   *)
(***************************************************************************)
EmptyMapping == [k \in {} |-> NilValue]

\* Table(Table *p): proto(p), an empty mapping, color WHITE.
NewTable(p) ==
  [kind |-> "Table", color |-> "WHITE", proto |-> p, mapping |-> EmptyMapping,
   env |-> 0, blob |-> NoBlob, freed |-> FALSE]

\* Function(Table *e, Blob *c)
NewFunction(e, c) ==
  [kind |-> "Function", color |-> "WHITE", proto |-> 0, mapping |-> EmptyMapping,
   env |-> e, blob |-> c, freed |-> FALSE]

\* ProgramCounter (x.cc:291-305)
ProgramCounter(b, n) == [blob |-> b, index |-> n]

done(p) == p.index < 0 \/ p.index >= Len(p.blob.instructions)

get(p) == p.blob.instructions[p.index + 1]

incr(p) == [p EXCEPT !.index = @ + 1]

move(p, n) == [p EXCEPT !.index = n]

back(s) == s[Len(s)]

pop_back(s) == SubSeq(s, 1, Len(s) - 1)

InitialThreshold == 1000

\* VirtualMachine(const ProgramCounter &p): envstack({make<Table>()}), pc(p)
Init ==
  /\ prog \in Programs
  /\ heap = [m \in Modes |-> <<NewTable(0)>>]
  /\ allManagedObjects = [m \in Modes |-> <<1>>]
  /\ evalstack = [m \in Modes |-> <<>>]
  /\ retstack = [m \in Modes |-> <<>>]
  /\ envstack = [m \in Modes |-> <<1>>]
  /\ pc = [m \in Modes |-> ProgramCounter(BlobOf(prog), 0)]
  /\ threshold = [m \in Modes |-> InitialThreshold]
  /\ out = [m \in Modes |-> <<>>]
  /\ fault = [m \in Modes |-> ""]
  /\ phase = [m \in Modes |-> "gc"]
  /\ steps = [m \in Modes |-> 0]
  /\ danglingRead = [m \in Modes |-> FALSE]
  /\ collections = [m \in Modes |-> 0]
  /\ marks = [m \in Modes |-> {}]
  /\ frames = [m \in Modes |-> <<>>]
  /\ completed = [m \in Modes |-> {}]

(***************************************************************************)
(* The loop of VirtualMachine::run (x.cc:455-466).                         *)
(***************************************************************************)
\* The negation of the while condition: run() returns normally.
Terminated(m) == fault[m] = "" /\ retstack[m] = <<>> /\ done(pc[m])

Running(m) == fault[m] = "" /\ ~(retstack[m] = <<>> /\ done(pc[m]))

(***************************************************************************)
(* The history variables.  Observe(m) is a conjunct of every action of VM  *)
(* m; it reads the step and constrains no program variable.                *)
(***************************************************************************)
\* The step is the handler (or the return) of this iteration.
HandlerStep(m) == phase[m] = "exec"

\* The step is a CALL that has entered the callee.
Entered(m) ==
  /\ HandlerStep(m) /\ ~done(pc[m]) /\ get(pc[m]).type = "CALL"
  /\ fault'[m] = ""

Returned(m) == HandlerStep(m) /\ done(pc[m])

\* The marks of the expressions that are complete where the step starts.
AtEnd(m, k) ==
  /\ k.depth = Len(retstack[m])
  /\ k.site.blob = pc[m].blob
  /\ k.site.last = pc[m].index

\* The variant of a site; the empty BLOCK is told from the others.
SiteKind(r) == IF r.type = "BLOCK" /\ r.last = r.first + 1 THEN "EMPTY_BLOCK" ELSE r.type

NewMarks(m) ==
  IF done(pc[m]) THEN {}
  ELSE {[site |-> r, depth |-> Len(retstack[m]), stk |-> evalstack[m],
         envs |-> envstack[m], ran |-> {}, cond |-> NilValue] :
          r \in {r \in Sites(prog) : r.blob = pc[m].blob /\ r.first = pc[m].index}}

\* The instruction of the step is counted in every open expression of the
\* running frame; an IF site records the Value its IF pops.
Ran(m, k) ==
  IF done(pc[m]) \/ k.depth # Len(retstack[m]) THEN k
  ELSE [k EXCEPT !.ran = @ \cup {pc[m].index},
                 !.cond = IF k.site.ifpos = pc[m].index /\ evalstack[m] # <<>>
                          THEN back(evalstack[m]) ELSE @]

NextMarks(m) ==
  {Ran(m, k) : k \in {k \in marks[m] : ~AtEnd(m, k)} \cup NewMarks(m)}

Observe(m) ==
  /\ UNCHANGED <<prog, gclang>>
  /\ steps' = IF HandlerStep(m) /\ phase'[m] = "gc"
              THEN Set(steps, m, steps[m] + 1) ELSE steps
  /\ collections' = IF phase[m] = "gc"
                       /\ (m = DEBUG \/ Len(allManagedObjects[m]) >= threshold[m])
                    THEN Set(collections, m, collections[m] + 1) ELSE collections
  /\ marks' = IF HandlerStep(m) THEN Set(marks, m, NextMarks(m)) ELSE marks
  /\ completed' =
       IF HandlerStep(m)
       THEN Set(completed, m, completed[m] \cup {SiteKind(k.site) : k \in {k \in marks[m] : AtEnd(m, k)}})
       ELSE completed
  /\ frames' =
       IF Entered(m) /\ pc'[m].index = 0 /\ Len(retstack'[m]) > Len(retstack[m])
       THEN Set(frames, m, Append(frames[m],
              [ret |-> incr(pc[m]),
               below |-> SubSeq(evalstack[m], 1,
                                Len(evalstack[m]) - 1 - get(pc[m]).integer),
               envs |-> envstack[m]]))
       ELSE IF Returned(m) THEN Set(frames, m, pop_back(frames[m]))
       ELSE frames

(***************************************************************************)
(* Table::traverse and Function::traverse (x.cc:337-343, 372): the         *)
(* objects handed to the visitor, as a sequence.  A Table hands over the   *)
(* objects of its mapping; its proto is not handed over.                   *)
(***************************************************************************)
RECURSIVE SeqOfSet(_)
SeqOfSet(S) == IF S = {} THEN <<>>
               ELSE LET k == CHOOSE k \in S : TRUE IN <<k>> \o SeqOfSet(S \ {k})

RECURSIVE MappingObjects(_, _)
MappingObjects(mapping, keys) ==
  IF keys = <<>> THEN <<>>
  ELSE (IF isObject(mapping[keys[1]]) THEN <<mapping[keys[1]].obj>> ELSE <<>>)
       \o MappingObjects(mapping, Tail(keys))

TableTraverse(o) == MappingObjects(o.mapping, SeqOfSet(DOMAIN o.mapping))

FunctionTraverse(o) == <<o.env>>

traverse(o) == IF o.kind = "Table" THEN TableTraverse(o) ELSE FunctionTraverse(o)

(***************************************************************************)
(* VirtualMachine::markAndSweep (x.cc:569-611).  A marking state is        *)
(* [h: the heap with its colors, grey: greyStack, work: workDone].         *)
(***************************************************************************)
\* The body shared by the three marking loops: count the visit, and paint
\* and push a non-null WHITE object.
Visit(st, q) ==
  IF q # 0 /\ st.h[q].color = "WHITE"
  THEN [h |-> [st.h EXCEPT ![q].color = "BLACK"],
        grey |-> Append(st.grey, q), work |-> st.work + 1]
  ELSE [st EXCEPT !.work = @ + 1]

RECURSIVE VisitAll(_, _)
VisitAll(st, qs) == IF qs = <<>> THEN st ELSE VisitAll(Visit(st, qs[1]), Tail(qs))

\* for (Value &v: evalstack): only a Value whose tag selects an object.
RECURSIVE MarkValues(_, _)
MarkValues(st, vs) ==
  IF vs = <<>> THEN st
  ELSE MarkValues(IF isObject(vs[1]) THEN Visit(st, vs[1].obj)
                  ELSE [st EXCEPT !.work = @ + 1], Tail(vs))

\* while (!greyStack.empty())
RECURSIVE Trace(_)
Trace(st) ==
  IF st.grey = <<>> THEN st
  ELSE LET p == back(st.grey)
       IN Trace(VisitAll([st EXCEPT !.grey = pop_back(st.grey)], traverse(st.h[p])))

Mark(m) ==
  Trace(VisitAll(MarkValues([h |-> heap[m], grey |-> <<>>, work |-> 0], evalstack[m]),
                 envstack[m]))

\* Mutant of SweptHeap: a survivor is kept without p->color = WHITE.
SweptHeapKeepsBlack(h, managed) ==
  [o \in DOMAIN h |->
     IF (\E k \in DOMAIN managed : managed[k] = o) /\ h[o].color = "WHITE"
     THEN [h[o] EXCEPT !.freed = TRUE]
     ELSE h[o]]

\* The sweep loop: delete the WHITE objects, repaint and keep the others.
SweptHeap(h, managed) ==
  [o \in DOMAIN h |->
     IF \E k \in DOMAIN managed : managed[k] = o
     THEN IF h[o].color = "WHITE" THEN [h[o] EXCEPT !.freed = TRUE]
          ELSE [h[o] EXCEPT !.color = "WHITE"]
     ELSE h[o]]

Survivors(h, managed) == SelectSeq(managed, LAMBDA o : h[o].color # "WHITE")

NextThreshold(workDone) == 3 * workDone

markAndSweep(m) ==
  LET st == Mark(m)
      workDone == st.work + Len(allManagedObjects[m])
  IN /\ heap' = Set(heap, m, SweptHeap(st.h, allManagedObjects[m]))
     /\ allManagedObjects' = Set(allManagedObjects, m, Survivors(st.h, allManagedObjects[m]))
     /\ threshold' = Set(threshold, m, NextThreshold(workDone))

\* mode<MODE_GC> with MODE_GC = DEBUG: a full collection before every step.
CollectStep(m) ==
  /\ m = DEBUG
  /\ phase[m] = "gc"
  /\ Running(m)
  /\ markAndSweep(m)
  /\ phase' = Set(phase, m, "exec")
  /\ UNCHANGED <<evalstack, retstack, envstack, pc, out, fault, danglingRead>>
  /\ Observe(m)

\* mode<MODE_GC> with MODE_GC = PROD: VirtualMachine::stepGc (x.cc:563-567).
stepGc(m) ==
  /\ m = PROD
  /\ phase[m] = "gc"
  /\ Running(m)
  /\ IF Len(allManagedObjects[m]) >= threshold[m]
     THEN markAndSweep(m)
     ELSE UNCHANGED <<heap, allManagedObjects, threshold>>
  /\ phase' = Set(phase, m, "exec")
  /\ UNCHANGED <<evalstack, retstack, envstack, pc, out, fault, danglingRead>>
  /\ Observe(m)

(***************************************************************************)
(* Table::get and Table::declare (x.cc:374-393).                           *)
(***************************************************************************)
\* The walk of get along proto.  It yields the Value found, or "nosuch"
\* when the chain ends, or "dangling" when the walk enters a deleted Table
\* before it has found the key (with stale = TRUE the deleted Table is read
\* as if its memory were still intact).
RECURSIVE TableGet(_, _, _, _)
TableGet(h, t, key, stale) ==
  IF h[t].freed /\ ~stale THEN [kind |-> "dangling", value |-> NilValue]
  ELSE IF key \in DOMAIN h[t].mapping THEN [kind |-> "value", value |-> h[t].mapping[key]]
  ELSE IF h[t].proto = 0 THEN [kind |-> "nosuch", value |-> NilValue]
  ELSE TableGet(h, h[t].proto, key, stale)

\* mapping[key] = value
Bind(mapping, key, value) ==
  [k \in DOMAIN mapping \cup {key} |-> IF k = key THEN value ELSE mapping[k]]

\* Mutant of TableDeclare: a binding of key in an ancestor also counts as
\* already declared.
TableDeclareChecksChain(h, t, key, value) ==
  IF TableGet(h, t, key, TRUE).kind # "value"
  THEN [h |-> [h EXCEPT ![t].mapping = Bind(@, key, value)], thrown |-> ""]
  ELSE [h |-> h, thrown |-> "Already declared name " \o key]

\* declare(key, value) on Table t: the heap after it, and whether it threw.
TableDeclare(h, t, key, value) ==
  IF key \notin DOMAIN h[t].mapping
  THEN [h |-> [h EXCEPT ![t].mapping = Bind(@, key, value)], thrown |-> ""]
  ELSE [h |-> h, thrown |-> "Already declared name " \o key]

(***************************************************************************)
(* The handlers of the switch in VirtualMachine::run (x.cc:467-558), one   *)
(* action each, and the return step (x.cc:462-465).                        *)
(***************************************************************************)
Fetch(m, t) ==
  /\ phase[m] = "exec"
  /\ Running(m)
  /\ ~done(pc[m])
  /\ get(pc[m]).type = t

\* The handler ran to its end: back to the top of the loop.
Completed(m) == phase' = Set(phase, m, "gc") /\ Observe(m)

\* error(s) threw: the exception leaves run() with the state as it stands.
Thrown(m, msg) ==
  /\ fault' = Set(fault, m, msg)
  /\ UNCHANGED phase
  /\ Observe(m)

\* make<T>(...) (x.cc:321-325): the new object's address.
NewAddress(m) == Len(heap[m]) + 1

\* Mutant of Return: envstack.pop_back() is forgotten.
ReturnKeepsEnv(m) ==
  /\ phase[m] = "exec"
  /\ Running(m)
  /\ done(pc[m])
  /\ pc' = Set(pc, m, back(retstack[m]))
  /\ retstack' = Set(retstack, m, pop_back(retstack[m]))
  /\ UNCHANGED <<allManagedObjects, evalstack, envstack, threshold, heap, out, fault,
                 danglingRead>>
  /\ Completed(m)

Return(m) ==
  /\ phase[m] = "exec"
  /\ Running(m)
  /\ done(pc[m])
  /\ pc' = Set(pc, m, back(retstack[m]))
  /\ retstack' = Set(retstack, m, pop_back(retstack[m]))
  /\ envstack' = Set(envstack, m, pop_back(envstack[m]))
  /\ UNCHANGED <<allManagedObjects, evalstack, threshold, heap, out, fault, danglingRead>>
  /\ Completed(m)

Invalid(m) ==
  /\ Fetch(m, "INVALID")
  /\ UNCHANGED <<allManagedObjects, evalstack, retstack, envstack, pc, threshold,
                 heap, out, danglingRead>>
  /\ Thrown(m, "Invalid instruction")

PushNil(m) ==
  /\ Fetch(m, "PUSH_NIL")
  /\ evalstack' = Set(evalstack, m, Append(evalstack[m], NilValue))
  /\ pc' = Set(pc, m, incr(pc[m]))
  /\ UNCHANGED <<allManagedObjects, retstack, envstack, threshold, heap, out, fault,
                 danglingRead>>
  /\ Completed(m)

\* str(Value::Type) and the line DEBUG_PRINT writes.
PrintLine(v) == IF v.type = "INTEGER" THEN v.type \o "(" \o IntStr(v.i) \o ")" ELSE v.type

DebugPrint(m) ==
  /\ Fetch(m, "DEBUG_PRINT")
  /\ evalstack[m] # <<>>
  /\ out' = Set(out, m, Append(out[m], PrintLine(back(evalstack[m]))))
  /\ pc' = Set(pc, m, incr(pc[m]))
  /\ UNCHANGED <<allManagedObjects, evalstack, retstack, envstack, threshold, heap,
                 fault, danglingRead>>
  /\ Completed(m)

PushInteger(m) ==
  /\ Fetch(m, "PUSH_INTEGER")
  /\ evalstack' = Set(evalstack, m, Append(evalstack[m], IntegerValue(get(pc[m]).imm)))
  /\ pc' = Set(pc, m, incr(pc[m]))
  /\ UNCHANGED <<allManagedObjects, retstack, envstack, threshold, heap, out, fault,
                 danglingRead>>
  /\ Completed(m)

Pop(m) ==
  /\ Fetch(m, "POP")
  /\ evalstack[m] # <<>>
  /\ evalstack' = Set(evalstack, m, pop_back(evalstack[m]))
  /\ pc' = Set(pc, m, incr(pc[m]))
  /\ UNCHANGED <<allManagedObjects, retstack, envstack, threshold, heap, out, fault,
                 danglingRead>>
  /\ Completed(m)

\* Mutant of BlockStart: make<Table>() runs a collection before it allocates.
BlockStartCollects(m) ==
  LET st == Mark(m)
  IN /\ Fetch(m, "BLOCK_START")
     /\ heap' = Set(heap, m, Append(SweptHeap(st.h, allManagedObjects[m]),
                                    NewTable(back(envstack[m]))))
     /\ allManagedObjects' =
          Set(allManagedObjects, m,
              Append(Survivors(st.h, allManagedObjects[m]), NewAddress(m)))
     /\ envstack' = Set(envstack, m, Append(envstack[m], NewAddress(m)))
     /\ pc' = Set(pc, m, incr(pc[m]))
     /\ UNCHANGED <<evalstack, retstack, threshold, out, fault, danglingRead>>
     /\ Completed(m)

BlockStart(m) ==
  /\ Fetch(m, "BLOCK_START")
  /\ heap' = Set(heap, m, Append(heap[m], NewTable(back(envstack[m]))))
  /\ allManagedObjects' = Set(allManagedObjects, m, Append(allManagedObjects[m], NewAddress(m)))
  /\ envstack' = Set(envstack, m, Append(envstack[m], NewAddress(m)))
  /\ pc' = Set(pc, m, incr(pc[m]))
  /\ UNCHANGED <<evalstack, retstack, threshold, out, fault, danglingRead>>
  /\ Completed(m)

\* Mutant of BlockEnd: the block's value is popped with its environment.
BlockEndPops(m) ==
  /\ Fetch(m, "BLOCK_END")
  /\ evalstack[m] # <<>>
  /\ envstack' = Set(envstack, m, pop_back(envstack[m]))
  /\ evalstack' = Set(evalstack, m, pop_back(evalstack[m]))
  /\ pc' = Set(pc, m, incr(pc[m]))
  /\ UNCHANGED <<allManagedObjects, retstack, threshold, heap, out, fault, danglingRead>>
  /\ Completed(m)

BlockEnd(m) ==
  /\ Fetch(m, "BLOCK_END")
  /\ envstack' = Set(envstack, m, pop_back(envstack[m]))
  /\ pc' = Set(pc, m, incr(pc[m]))
  /\ UNCHANGED <<allManagedObjects, evalstack, retstack, threshold, heap, out, fault,
                 danglingRead>>
  /\ Completed(m)

\* Mutant of DeclareVariable: the declared value is popped.
DeclareVariablePops(m) ==
  /\ Fetch(m, "DECLARE_VARIABLE")
  /\ evalstack[m] # <<>>
  /\ LET r == TableDeclare(heap[m], back(envstack[m]), get(pc[m]).name, back(evalstack[m]))
     IN IF r.thrown = ""
        THEN /\ heap' = Set(heap, m, r.h)
             /\ pc' = Set(pc, m, incr(pc[m]))
             /\ evalstack' = Set(evalstack, m, pop_back(evalstack[m]))
             /\ UNCHANGED fault
             /\ Completed(m)
        ELSE /\ UNCHANGED <<heap, pc, evalstack>>
             /\ Thrown(m, r.thrown)
  /\ UNCHANGED <<allManagedObjects, retstack, envstack, threshold, out, danglingRead>>

\* Mutant of DeclareVariable: the name is declared in the root environment,
\* the bottom of envstack.
DeclareVariableInRoot(m) ==
  /\ Fetch(m, "DECLARE_VARIABLE")
  /\ evalstack[m] # <<>>
  /\ LET r == TableDeclare(heap[m], envstack[m][1], get(pc[m]).name, back(evalstack[m]))
     IN IF r.thrown = ""
        THEN /\ heap' = Set(heap, m, r.h)
             /\ pc' = Set(pc, m, incr(pc[m]))
             /\ UNCHANGED fault
             /\ Completed(m)
        ELSE /\ UNCHANGED <<heap, pc>>
             /\ Thrown(m, r.thrown)
  /\ UNCHANGED <<allManagedObjects, evalstack, retstack, envstack, threshold, out,
                 danglingRead>>

DeclareVariable(m) ==
  /\ Fetch(m, "DECLARE_VARIABLE")
  /\ evalstack[m] # <<>>
  /\ LET r == TableDeclare(heap[m], back(envstack[m]), get(pc[m]).name, back(evalstack[m]))
     IN IF r.thrown = ""
        THEN /\ heap' = Set(heap, m, r.h)
             /\ pc' = Set(pc, m, incr(pc[m]))
             /\ UNCHANGED fault
             /\ Completed(m)
        ELSE /\ UNCHANGED <<heap, pc>>
             /\ Thrown(m, r.thrown)
  /\ UNCHANGED <<allManagedObjects, evalstack, retstack, envstack, threshold, out,
                 danglingRead>>

(***************************************************************************)
(* PUSH_VARIABLE (x.cc:511-514).  envstack.back()->get(name) either        *)
(* returns a Value or throws.  A walk that enters a deleted Table reads    *)
(* freed memory, which is undefined behaviour: the read may see the old    *)
(* contents, may see anything else (some other Value, or no such key and a *)
(* null proto), or may fault.                                              *)
(***************************************************************************)
GarbageValues == {NilValue, IntegerValue(I(0))}

GetResult(v, msg, ub) == [value |-> v, thrown |-> msg, dangling |-> ub]

NoSuchName(key) == "No such name " \o key

GetOutcomes(h, t, key) ==
  LET r == TableGet(h, t, key, FALSE)
      old == TableGet(h, t, key, TRUE)
  IN CASE r.kind = "value" -> {GetResult(r.value, "", FALSE)}
       [] r.kind = "nosuch" -> {GetResult(NilValue, NoSuchName(key), FALSE)}
       [] r.kind = "dangling" ->
            {GetResult(v, "", TRUE) : v \in GarbageValues}
            \cup {GetResult(NilValue, msg, TRUE) : msg \in {"SIGSEGV", NoSuchName(key)}}
            \cup (IF old.kind = "value" /\ (isPrimitive(old.value) \/ ~h[old.value.obj].freed)
                  THEN {GetResult(old.value, "", TRUE)} ELSE {})

PushVariable(m) ==
  /\ Fetch(m, "PUSH_VARIABLE")
  /\ \E r \in GetOutcomes(heap[m], back(envstack[m]), get(pc[m]).name) :
       /\ danglingRead' = Set(danglingRead, m, danglingRead[m] \/ r.dangling)
       /\ IF r.thrown = ""
          THEN /\ evalstack' = Set(evalstack, m, Append(evalstack[m], r.value))
               /\ pc' = Set(pc, m, incr(pc[m]))
               /\ UNCHANGED fault
               /\ Completed(m)
          ELSE /\ UNCHANGED <<evalstack, pc>>
               /\ Thrown(m, r.thrown)
  /\ UNCHANGED <<allManagedObjects, retstack, envstack, threshold, heap, out>>

If(m) ==
  /\ Fetch(m, "IF")
  /\ evalstack[m] # <<>>
  /\ pc' = Set(pc, m, IF truthy(back(evalstack[m])) THEN incr(pc[m])
                      ELSE move(pc[m], get(pc[m]).integer))
  /\ evalstack' = Set(evalstack, m, pop_back(evalstack[m]))
  /\ UNCHANGED <<allManagedObjects, retstack, envstack, threshold, heap, out, fault,
                 danglingRead>>
  /\ Completed(m)

Else(m) ==
  /\ Fetch(m, "ELSE")
  /\ pc' = Set(pc, m, move(pc[m], get(pc[m]).integer))
  /\ UNCHANGED <<allManagedObjects, evalstack, retstack, envstack, threshold, heap, out,
                 fault, danglingRead>>
  /\ Completed(m)

PushFunction(m) ==
  /\ Fetch(m, "PUSH_FUNCTION")
  /\ heap' = Set(heap, m, Append(heap[m], NewFunction(back(envstack[m]), get(pc[m]).blob)))
  /\ allManagedObjects' = Set(allManagedObjects, m, Append(allManagedObjects[m], NewAddress(m)))
  /\ evalstack' = Set(evalstack, m, Append(evalstack[m], FunctionValue(NewAddress(m))))
  /\ pc' = Set(pc, m, incr(pc[m]))
  /\ UNCHANGED <<retstack, envstack, threshold, out, fault, danglingRead>>
  /\ Completed(m)

(***************************************************************************)
(* CALL (x.cc:530-554).                                                    *)
(***************************************************************************)
\* for (j = 0; j < nargs; j++) env->declare(args[j], evalstack[size - nargs + j]),
\* on the stack the callee has been popped from; j counts from 1 here.
\* Mutant of DeclareArgs: parameter j is bound to the j-th value from the
\* top, so the arguments are taken in reverse.
RECURSIVE DeclareArgsReversed(_, _, _, _, _)
DeclareArgsReversed(h, env, args, stack, j) ==
  IF j > Len(args) THEN [h |-> h, thrown |-> ""]
  ELSE LET r == TableDeclare(h, env, args[j], stack[Len(stack) + 1 - j])
       IN IF r.thrown # "" THEN r ELSE DeclareArgsReversed(r.h, env, args, stack, j + 1)

RECURSIVE DeclareArgs(_, _, _, _, _)
DeclareArgs(h, env, args, stack, j) ==
  IF j > Len(args) THEN [h |-> h, thrown |-> ""]
  ELSE LET r == TableDeclare(h, env, args[j], stack[Len(stack) - Len(args) + j])
       IN IF r.thrown # "" THEN r ELSE DeclareArgs(r.h, env, args, stack, j + 1)

\* Mutant of ArityMessage: the two counts change places.
ArityMessageSwapped(k, n) == "Expected " \o ToString(n) \o " args but got " \o ToString(k)

ArityMessage(k, n) == "Expected " \o ToString(k) \o " args but got " \o ToString(n)

\* The parent of the environment a call creates: f->env.
CallParent(m, f) == heap[m][f].env

\* Mutant of CallDefault: the tag is looked at after pc.incr() and
\* retstack.push_back(pc).
CallDefaultAfterPush(m, top) ==
  /\ pc' = Set(pc, m, incr(pc[m]))
  /\ retstack' = Set(retstack, m, Append(retstack[m], incr(pc[m])))
  /\ UNCHANGED <<evalstack, heap, allManagedObjects, envstack>>
  /\ Thrown(m, "Not calllable: " \o top.type)

\* default: of the switch on evalstack.back().type
CallDefault(m, top) ==
  /\ UNCHANGED <<pc, retstack, evalstack, heap, allManagedObjects, envstack>>
  /\ Thrown(m, "Not calllable: " \o top.type)

\* CALL finds a FUNCTION on top, the argument count matches, and fewer
\* than that many Values lie below the callee.
ShortOfArguments(m) ==
  /\ evalstack[m] # <<>>
  /\ back(evalstack[m]).type = "FUNCTION"
  /\ Len(retstack[m]) < MaxDepth
  /\ get(pc[m]).integer = Len(heap[m][back(evalstack[m]).obj].blob.args)
  /\ Len(evalstack[m]) - 1 < get(pc[m]).integer

Call(m) ==
  /\ Fetch(m, "CALL")
  /\ evalstack[m] # <<>>
  /\ ~ShortOfArguments(m)
  /\ LET top == back(evalstack[m])
         f == top.obj
         nargs == get(pc[m]).integer
         stack == pop_back(evalstack[m])
         env == NewAddress(m)
         made == Append(heap[m], NewTable(CallParent(m, f)))
         args == heap[m][f].blob.args
         bound == DeclareArgs(made, env, args, stack, 1)
     IN IF top.type # "FUNCTION"
        THEN CallDefault(m, top)
        ELSE IF Len(retstack[m]) >= MaxDepth
        THEN \* retstack.push_back(pc) finds no memory
             /\ pc' = Set(pc, m, incr(pc[m]))
             /\ UNCHANGED <<retstack, evalstack, heap, allManagedObjects, envstack>>
             /\ Thrown(m, "bad_alloc")
        ELSE /\ retstack' = Set(retstack, m, Append(retstack[m], incr(pc[m])))
             /\ allManagedObjects' = Set(allManagedObjects, m, Append(allManagedObjects[m], env))
             /\ envstack' = Set(envstack, m, Append(envstack[m], env))
             /\ IF nargs # Len(args)
                THEN /\ pc' = Set(pc, m, incr(pc[m]))
                     /\ evalstack' = Set(evalstack, m, stack)
                     /\ heap' = Set(heap, m, made)
                     /\ Thrown(m, ArityMessage(Len(args), nargs))
                ELSE IF bound.thrown # ""
                THEN /\ pc' = Set(pc, m, incr(pc[m]))
                     /\ evalstack' = Set(evalstack, m, stack)
                     /\ heap' = Set(heap, m, bound.h)
                     /\ Thrown(m, bound.thrown)
                ELSE /\ pc' = Set(pc, m, ProgramCounter(heap[m][f].blob, 0))
                     /\ evalstack' = Set(evalstack, m, SubSeq(stack, 1, Len(stack) - nargs))
                     /\ heap' = Set(heap, m, bound.h)
                     /\ UNCHANGED fault
                     /\ Completed(m)
  /\ UNCHANGED <<threshold, out, danglingRead>>

Tailcall(m) ==
  /\ Fetch(m, "TAILCALL")
  /\ UNCHANGED <<allManagedObjects, evalstack, retstack, envstack, pc, threshold,
                 heap, out, danglingRead>>
  /\ Thrown(m, "Not yet implemented")

(***************************************************************************)
(* A handler on a value stack that is too short (x.cc:479-547).            *)
(* evalstack.back() and evalstack.pop_back() on an empty vector, and       *)
(* evalstack[size - nargs + j] with size < nargs, are undefined behaviour. *)
(* The outcomes kept here are the ones builds of the program show: the     *)
(* read faults; or it yields some Value and the handler carries on with    *)
(* it, the vector staying empty; and for the short CALL the read faults or *)
(* evalstack.resize() of a wrapped size throws std::length_error, after    *)
(* CALL has pushed the return address and the new environment.             *)
(***************************************************************************)
UnderflowTypes == {"POP", "IF", "DECLARE_VARIABLE", "DEBUG_PRINT", "CALL"}

\* The handler of instruction i carries on with v read as evalstack.back().
ReadPastStack(m, i, v) ==
  CASE i.type = "POP" ->
         /\ pc' = Set(pc, m, incr(pc[m]))
         /\ UNCHANGED <<allManagedObjects, evalstack, retstack, envstack, threshold, heap,
                        out, fault, danglingRead>>
         /\ Completed(m)
    [] i.type = "DEBUG_PRINT" ->
         /\ out' = Set(out, m, Append(out[m], PrintLine(v)))
         /\ pc' = Set(pc, m, incr(pc[m]))
         /\ UNCHANGED <<allManagedObjects, evalstack, retstack, envstack, threshold, heap,
                        fault, danglingRead>>
         /\ Completed(m)
    [] i.type = "IF" ->
         /\ pc' = Set(pc, m, IF truthy(v) THEN incr(pc[m]) ELSE move(pc[m], i.integer))
         /\ UNCHANGED <<allManagedObjects, evalstack, retstack, envstack, threshold, heap,
                        out, fault, danglingRead>>
         /\ Completed(m)
    [] i.type = "DECLARE_VARIABLE" ->
         /\ LET r == TableDeclare(heap[m], back(envstack[m]), i.name, v)
            IN IF r.thrown = ""
               THEN /\ heap' = Set(heap, m, r.h)
                    /\ pc' = Set(pc, m, incr(pc[m]))
                    /\ UNCHANGED fault
                    /\ Completed(m)
               ELSE /\ UNCHANGED <<heap, pc>>
                    /\ Thrown(m, r.thrown)
         /\ UNCHANGED <<allManagedObjects, evalstack, retstack, envstack, threshold, out,
                        danglingRead>>
    [] i.type = "CALL" ->
         /\ CallDefault(m, v)
         /\ UNCHANGED <<threshold, out, danglingRead>>

Underflow(m) ==
  /\ phase[m] = "exec"
  /\ Running(m)
  /\ ~done(pc[m])
  /\ \/ /\ get(pc[m]).type \in UnderflowTypes
        /\ evalstack[m] = <<>>
        /\ \/ /\ UNCHANGED <<allManagedObjects, evalstack, retstack, envstack, pc,
                              threshold, heap, out, danglingRead>>
              /\ Thrown(m, "SIGSEGV")
           \/ \E v \in GarbageValues : ReadPastStack(m, get(pc[m]), v)
     \/ /\ get(pc[m]).type = "CALL"
        /\ ShortOfArguments(m)
        /\ pc' = Set(pc, m, incr(pc[m]))
        /\ retstack' = Set(retstack, m, Append(retstack[m], incr(pc[m])))
        /\ evalstack' = Set(evalstack, m, pop_back(evalstack[m]))
        /\ heap' = Set(heap, m, Append(heap[m],
                      NewTable(CallParent(m, back(evalstack[m]).obj))))
        /\ allManagedObjects' = Set(allManagedObjects, m,
                                   Append(allManagedObjects[m], NewAddress(m)))
        /\ envstack' = Set(envstack, m, Append(envstack[m], NewAddress(m)))
        /\ UNCHANGED <<threshold, out, danglingRead>>
        /\ \E msg \in {"SIGSEGV", "length_error"} : Thrown(m, msg)

(***************************************************************************)
(* The two VMs step independently of each other.                           *)
(***************************************************************************)
Next ==
  \E m \in Modes :
    \/ CollectStep(m)
    \/ stepGc(m)
    \/ Return(m)
    \/ Invalid(m)
    \/ PushNil(m)
    \/ DebugPrint(m)
    \/ PushInteger(m)
    \/ Pop(m)
    \/ BlockStart(m)
    \/ BlockEnd(m)
    \/ DeclareVariable(m)
    \/ PushVariable(m)
    \/ If(m)
    \/ Else(m)
    \/ PushFunction(m)
    \/ Call(m)
    \/ Tailcall(m)
    \/ Underflow(m)

(***************************************************************************)
(* gclang.cc: the tree-walking interpreter whose collector takes the       *)
(* objects with refcnt > 0 as its roots.  The fields of gclang:            *)
(*   objects            the heap: per address the object's type, value,    *)
(*                      color, refcnt and whether it has been deleted      *)
(*   allManagedObjects  the global vector of that name                     *)
(*   threshold          the global of that name                            *)
(*   pc                 the position of main                               *)
(*   statements         the values of the Literals of Block b              *)
(*   i                  the loop variable of Block::eval                   *)
(*   r, c               the locals of main (0 while unset)                 *)
(*   temps              the P returned by mkn and mks that the running     *)
(*                      full-expression has not consumed yet               *)
(*   lits               the values of the Literals of the If of line 319   *)
(*   out                the lines written to std::cout                     *)
(*   fault              "" or the signal that ended the process            *)
(*   evals              history: the statements Block::eval has evaluated  *)
(*   danglingUse        history: a deleted object has been dereferenced    *)
(* The initialiser of metaint (gclang.cc:233-237) is ill-formed (make is   *)
(* given a braced list, Function's constructor is private) and main never  *)
(* reads metaint, so the global is left out.                               *)
(***************************************************************************)
\* The largest number of statements of the Block that main evaluates.
MaxStatements == 2

DEBUG_GC == 1

gclang_InitialThreshold == 1000

\* The arguments main passes to mkn and to mks.
Doubles == {0, 5}

Hello == "Hello world!"

\* Object(): color WHITE, refcnt 0 (gclang.cc:37-38).
gclang_Object(t, v) ==
  [type |-> t, value |-> v, color |-> "WHITE", refcnt |-> 0, freed |-> FALSE]

\* traverse of Nil, Number and String: no object is visited.
gclang_traverse(o) == <<>>

\* The callback markAndSweep hands to traverse.
gclang_Visit(st, q) ==
  LET w == [st EXCEPT !.work = @ + 1]
  IN IF st.h[q].color = "WHITE"
     THEN [w EXCEPT !.h[q].color = "BLACK", !.grey = Append(@, q)]
     ELSE w

RECURSIVE gclang_VisitAll(_, _)
gclang_VisitAll(st, qs) ==
  IF qs = <<>> THEN st ELSE gclang_VisitAll(gclang_Visit(st, Head(qs)), Tail(qs))

\* for (P p: allManagedObjects): the objects with refcnt > 0 are the roots.
RECURSIVE gclang_MarkRoots(_, _)
gclang_MarkRoots(st, managed) ==
  IF managed = <<>> THEN st
  ELSE LET p == Head(managed)
           w == [st EXCEPT !.work = @ + 1]
       IN gclang_MarkRoots(IF st.h[p].refcnt > 0 /\ st.h[p].color = "WHITE"
                           THEN [w EXCEPT !.h[p].color = "BLACK", !.grey = Append(@, p)]
                           ELSE w,
                           Tail(managed))

RECURSIVE gclang_Trace(_)
gclang_Trace(st) ==
  IF st.grey = <<>> THEN st
  ELSE LET p == back(st.grey)
       IN gclang_Trace(gclang_VisitAll([st EXCEPT !.grey = pop_back(@)],
                                       gclang_traverse(st.h[p])))

gclang_Mark(g) ==
  gclang_Trace(gclang_MarkRoots([h |-> g.objects, grey |-> <<>>, work |-> 0],
                                g.allManagedObjects))

\* The sweep loop: delete the WHITE objects, repaint and keep the others.
gclang_SweptHeap(h, managed) ==
  [o \in DOMAIN h |->
     IF \E k \in DOMAIN managed : managed[k] = o
     THEN IF h[o].color = "WHITE" THEN [h[o] EXCEPT !.freed = TRUE]
          ELSE [h[o] EXCEPT !.color = "WHITE"]
     ELSE h[o]]

gclang_Survivors(h, managed) == SelectSeq(managed, LAMBDA o : h[o].color # "WHITE")

gclang_NextThreshold(workDone) == workDone * 3 + 1000

\* markAndSweep (gclang.cc:253-288), as the state it leaves.
gclang_markAndSweep(g) ==
  LET st == gclang_Mark(g)
  IN [g EXCEPT !.objects = gclang_SweptHeap(st.h, g.allManagedObjects),
               !.allManagedObjects = gclang_Survivors(st.h, g.allManagedObjects),
               !.threshold = gclang_NextThreshold(st.work)]

\* make<T>(args) (gclang.cc:289-305), as the state it leaves; the P it
\* returns is the last address of objects.
gclang_make(g, t, v) ==
  LET s == IF DEBUG_GC = 1 \/ Len(g.allManagedObjects) > g.threshold
           THEN gclang_markAndSweep(g) ELSE g
  IN [s EXCEPT !.objects = Append(@, gclang_Object(t, v)),
               !.allManagedObjects = Append(@, Len(s.objects) + 1)]

\* StackPointer(P ptr) and ~StackPointer() (gclang.cc:64-65).
StackPointer(g, p) == [g EXCEPT !.objects[p].refcnt = @ + 1]

StackPointerEnd(g, p) == [g EXCEPT !.objects[p].refcnt = @ - 1]

RECURSIVE StackPointersEnd(_, _)
StackPointersEnd(g, ps) ==
  IF ps = <<>> THEN g ELSE StackPointersEnd(StackPointerEnd(g, Head(ps)), Tail(ps))

\* The globals before the dynamic initialisers have run.
gclang_Statics ==
  [objects |-> <<>>, allManagedObjects |-> <<>>, threshold |-> gclang_InitialThreshold,
   pc |-> "l313", statements |-> <<>>, i |-> 0, r |-> 0, c |-> 0,
   temps |-> <<>>, lits |-> <<>>, out |-> <<>>, fault |-> "",
   evals |-> <<>>, danglingUse |-> FALSE]

\* StackPointer nil(make<Nil>()): the address nil holds.
nil == Len(gclang_make(gclang_Statics, "Nil", 0).objects)

\* The state in which main starts.
gclang_Init == gclang = StackPointer(gclang_make(gclang_Statics, "Nil", 0), nil)

\* truthy, equals and debugstr of Object, Nil, Number and String.
gclang_truthy(o) ==
  CASE o.type = "Nil" -> FALSE
    [] o.type = "Number" -> o.value # 0
    [] o.type = "String" -> o.value # ""

equals(h, p, q) ==
  IF h[p].type = "Nil" THEN p = q
  ELSE p = q \/ (h[q].type = h[p].type /\ h[q].value = h[p].value)

debugstr(o) ==
  CASE o.type = "Nil" -> "nil"
    [] o.type = "Number" -> "num(" \o ToString(o.value) \o ")"
    [] o.type = "String" -> "String@"

\* std::cout << bool
Shown(b) == IF b THEN "1" ELSE "0"

\* The positions of main, by the line of gclang.cc, and their order.
After ==
  [l313lit |-> "l313", l316 |-> "l316eq", l316eq |-> "l317", l317 |-> "l317eq",
   l317eq |-> "l318", l318 |-> "l318b", l318b |-> "l318eq", l318eq |-> "l319",
   l319 |-> "l319lit0", l319lit0 |-> "l319nil", l319nil |-> "l319n5",
   l319n5 |-> "l319lit5", l319lit5 |-> "l319if", l319if |-> "l320",
   l320 |-> "done"]

\* The argument of mkn at the positions where main calls it with a constant.
MknArgument == [l316 |-> 5, l319 |-> 0, l319n5 |-> 5]

\* mkn(d): make<Number>(d).  In the list of mkblock (line 313) the input
\* is any of Doubles, for up to MaxStatements statements.
mkn ==
  /\ gclang.fault = ""
  /\ \E d \in Doubles :
       /\ \/ gclang.pc = "l313" /\ Len(gclang.statements) < MaxStatements
          \/ gclang.pc \in DOMAIN MknArgument /\ d = MknArgument[gclang.pc]
       /\ LET g == gclang_make(gclang, "Number", d)
          IN gclang' = [g EXCEPT !.temps = Append(@, Len(g.objects)),
                                 !.pc = IF gclang.pc = "l313" THEN "l313lit"
                                        ELSE After[gclang.pc]]
  /\ UNCHANGED vmvars

\* mks("Hello world!"): make<String>(s), at lines 317 and 318.
mks ==
  /\ gclang.fault = ""
  /\ gclang.pc \in {"l317", "l318", "l318b"}
  /\ LET g == gclang_make(gclang, "String", Hello)
     IN gclang' = [g EXCEPT !.temps = Append(@, Len(g.objects)),
                            !.pc = After[gclang.pc]]
  /\ UNCHANGED vmvars

\* mklit(v): the Literal's StackPointer takes v, which is the P that mkn
\* has just returned, or nil at line 319.
mklit ==
  /\ gclang.fault = ""
  /\ gclang.pc \in {"l313lit", "l319lit0", "l319nil", "l319lit5"}
  /\ LET v == IF gclang.pc = "l319nil" THEN nil ELSE back(gclang.temps)
         g == StackPointer(gclang, v)
     IN gclang' =
          [g EXCEPT !.temps = IF gclang.pc = "l319nil" THEN @ ELSE pop_back(@),
                    !.statements = IF gclang.pc = "l313lit" THEN Append(@, v) ELSE @,
                    !.lits = IF gclang.pc = "l313lit" THEN @ ELSE Append(@, v),
                    !.pc = After[gclang.pc]]
  /\ UNCHANGED vmvars

\* mkblock(stmts), with the statements made so far; line 315 follows.
mkblock ==
  /\ gclang.fault = ""
  /\ gclang.pc = "l313"
  /\ gclang' = [gclang EXCEPT !.pc = "l315", !.i = 0]
  /\ UNCHANGED vmvars

\* Literal::eval: return value.get().
LiteralEval(g, k) == g.statements[k]

\* Block::eval, one iteration of its for loop: statements[i]->eval(env).
BlockEvalLoop ==
  /\ gclang.fault = ""
  /\ gclang.pc = "l315"
  /\ gclang.statements # <<>>
  /\ gclang.i < Len(gclang.statements)
  /\ gclang' = [gclang EXCEPT !.evals = Append(@, gclang.i + 1), !.i = @ + 1]
  /\ UNCHANGED vmvars

\* Block::eval, its two returns: nil for no statements, and after the loop
\* statements.back()->eval(env).  main keeps the result in r.
BlockEvalReturn ==
  /\ gclang.fault = ""
  /\ gclang.pc = "l315"
  /\ IF gclang.statements = <<>>
     THEN gclang' = [gclang EXCEPT !.r = nil, !.pc = "l316"]
     ELSE /\ gclang.i >= Len(gclang.statements)
          /\ gclang' = [gclang EXCEPT !.evals = Append(@, Len(gclang.statements)),
                                      !.r = LiteralEval(gclang, Len(gclang.statements)),
                                      !.pc = "l316"]
  /\ UNCHANGED vmvars

\* The receiver and the argument of equals.  At line 318 both are made in
\* the same full-expression, in an order the language leaves open.
Operands(g) ==
  IF g.pc = "l318eq"
  THEN {<<g.temps[1], g.temps[2]>>, <<g.temps[2], g.temps[1]>>}
  ELSE {<<g.r, back(g.temps)>>}

\* std::cout << p->equals(q) << std::endl.  When p or q has been deleted
\* the call reads freed memory: it may print either result or end the
\* process.
Equals ==
  /\ gclang.fault = ""
  /\ gclang.pc \in {"l316eq", "l317eq", "l318eq"}
  /\ \E pq \in Operands(gclang) :
       LET h == gclang.objects
           g == [gclang EXCEPT !.temps = <<>>, !.pc = After[gclang.pc]]
       IN IF h[pq[1]].freed \/ h[pq[2]].freed
          THEN \/ \E b \in BOOLEAN :
                    gclang' = [g EXCEPT !.out = Append(@, Shown(b)),
                                        !.danglingUse = TRUE]
               \/ gclang' = [gclang EXCEPT !.fault = "SIGSEGV", !.danglingUse = TRUE]
          ELSE gclang' = [g EXCEPT !.out = Append(@, Shown(equals(h, pq[1], pq[2])))]
  /\ UNCHANGED vmvars

\* mkif(c, b, t)->eval(nullptr) at line 319, kept in c; the If and its
\* Literals are temporaries, whose StackPointers end with the statement.
IfEval ==
  /\ gclang.fault = ""
  /\ gclang.pc = "l319if"
  /\ LET l == gclang.lits
         v == IF gclang_truthy(gclang.objects[l[1]]) THEN l[2] ELSE l[3]
     IN gclang' = [StackPointersEnd(gclang, l) EXCEPT !.c = v, !.lits = <<>>,
                                                      !.pc = After[gclang.pc]]
  /\ UNCHANGED vmvars

\* std::cout << c->debugstr() << std::endl at line 320.
Debugstr ==
  /\ gclang.fault = ""
  /\ gclang.pc = "l320"
  /\ gclang' = [gclang EXCEPT !.out = Append(@, debugstr(gclang.objects[gclang.c])),
                              !.pc = After[gclang.pc]]
  /\ UNCHANGED vmvars

gclang_Next ==
  \/ mkn
  \/ mks
  \/ mklit
  \/ mkblock
  \/ BlockEvalLoop
  \/ BlockEvalReturn
  \/ Equals
  \/ IfEval
  \/ Debugstr

\* The VM of x.cc runs while gclang.cc's program stays where main starts.
Start == Init /\ gclang_Init

Spec == Start /\ [][Next]_vars

\* The program of gclang.cc runs while the VM stays as it is constructed,
\* on the first of the programs.
StartGclang == Start /\ prog = "Scenario1"

SpecGclang == StartGclang /\ [][gclang_Next]_vars

(***************************************************************************)
(* Reachability as the collector is specified to see it: from the          *)
(* heap-tagged Values of evalstack and the Tables of envstack, along a     *)
(* Table's proto and the heap-tagged Values of its mapping, and along a    *)
(* Function's env.  A deleted object keeps its last pointers here.         *)
(***************************************************************************)
Children(h, o) ==
  (IF h[o].kind = "Table"
   THEN {h[o].proto} \cup {h[o].mapping[k].obj : k \in {k \in DOMAIN h[o].mapping :
                                                        isObject(h[o].mapping[k])}}
   ELSE {h[o].env}) \ {0}

RECURSIVE ReachableFrom(_, _)
ReachableFrom(h, S) ==
  LET T == S \cup UNION {Children(h, o) : o \in S}
  IN IF T = S THEN S ELSE ReachableFrom(h, T)

Roots(m) ==
  ({evalstack[m][k].obj : k \in {k \in DOMAIN evalstack[m] : isObject(evalstack[m][k])}}
   \cup {envstack[m][k] : k \in DOMAIN envstack[m]}) \ {0}

Reachable(m) == ReachableFrom(heap[m], Roots(m))

\* The objects of allManagedObjects, as a set.
Managed(m) == {allManagedObjects[m][k] : k \in DOMAIN allManagedObjects[m]}

\* VM m is taking a step in which markAndSweep runs.
Collecting(m) == collections'[m] # collections[m]

(***************************************************************************)
(* C1.  markAndSweep never destroys an object that is reachable when the   *)
(* collection starts: every object that is reachable and not deleted       *)
(* before a step is not deleted after it.                                  *)
(***************************************************************************)
C1_ReachableNeverDestroyed ==
  [][\A m \in Modes : \A o \in Reachable(m) :
       ~heap[m][o].freed => ~heap'[m][o].freed]_vars

(***************************************************************************)
(* C2.  Scenario 5 on the VM as configured (MODE_GC) prints exactly        *)
(* INTEGER(42) and terminates normally, and PUSH_VARIABLE never reads a    *)
(* deleted Environment.                                                    *)
(***************************************************************************)
C2_ClosureCapture ==
  prog = "Scenario5" =>
    /\ ~danglingRead[MODE_GC]
    /\ ~Running(MODE_GC) =>
         /\ Terminated(MODE_GC)
         /\ out[MODE_GC] = <<"INTEGER(42)">>

(***************************************************************************)
(* C3.  For scenarios 1 to 5 the DEBUG and the PROD run stay related step  *)
(* by step (same pc, same tags and integers on evalstack, same retstack,   *)
(* same envstack depth, same lines printed) and end alike.                 *)
(***************************************************************************)
Scenarios == {"Scenario1", "Scenario2", "Scenario3", "Scenario4", "Scenario5"}

ValueView(v) == [type |-> v.type, i |-> IF v.type = "INTEGER" THEN v.i ELSE Int0]

StackView(st) == [k \in DOMAIN st |-> ValueView(st[k])]

Related(a, b) ==
  /\ pc[a] = pc[b]
  /\ StackView(evalstack[a]) = StackView(evalstack[b])
  /\ retstack[a] = retstack[b]
  /\ Len(envstack[a]) = Len(envstack[b])
  /\ out[a] = out[b]

C3_GcCadenceNotObservable ==
  prog \in Scenarios =>
    /\ (steps[DEBUG] = steps[PROD] /\ fault[DEBUG] = "" /\ fault[PROD] = "")
         => Related(DEBUG, PROD)
    /\ (~Running(DEBUG) /\ ~Running(PROD))
         => /\ fault[DEBUG] = fault[PROD]
            /\ out[DEBUG] = out[PROD]
            /\ StackView(evalstack[DEBUG]) = StackView(evalstack[PROD])

(***************************************************************************)
(* C4.  After every completed markAndSweep the size of allManagedObjects   *)
(* is the number of objects that were reachable when it began.             *)
(***************************************************************************)
C4_ManagedCountIsReachableCount ==
  [][\A m \in Modes :
       Collecting(m) => Len(allManagedObjects'[m]) = Cardinality(Reachable(m))]_vars

(***************************************************************************)
(* Steps, as the action properties below see them.                         *)
(***************************************************************************)
\* VM m ran a handler (or the return) to its end, without a throw.
Stepped(m) == phase[m] = "exec" /\ phase'[m] = "gc"

\* VM m ran a handler that threw, or one that ran to its end.
Handled(m) == phase[m] = "exec" /\ (phase'[m] = "gc" \/ fault'[m] # fault[m])

\* The names bound along proto from Table t on.
RECURSIVE ChainNames(_, _)
ChainNames(h, t) ==
  DOMAIN h[t].mapping \cup (IF h[t].proto = 0 THEN {} ELSE ChainNames(h, h[t].proto))

(***************************************************************************)
(* C5.  Scope is lexical: the environment CALL creates has the closure's   *)
(* captured environment as parent, and a PUSH_VARIABLE executed in a       *)
(* function body for a name that no environment of that chain binds raises *)
(* the name error, whatever the caller's environments on envstack bind.    *)
(***************************************************************************)
C5_LexicalScope ==
  [][\A m \in Modes :
       /\ (Entered(m) /\ Stepped(m)) =>
            heap'[m][back(envstack'[m])].proto = heap[m][back(evalstack[m]).obj].env
       /\ (Handled(m) /\ ~done(pc[m]) /\ get(pc[m]).type = "PUSH_VARIABLE"
           /\ retstack[m] # <<>>
           /\ get(pc[m]).name \notin ChainNames(heap[m], back(envstack[m])))
          => fault'[m] = NoSuchName(get(pc[m]).name)]_vars

(***************************************************************************)
(* C6.  When the run of a compiled expression terminates normally,         *)
(* retstack is empty and envstack holds exactly the root environment the   *)
(* constructor created (address 1, no parent), every push on envstack      *)
(* having been popped again.                                               *)
(***************************************************************************)
C6_StacksAtTermination ==
  \A m \in Modes :
    (prog \in Compiled /\ Terminated(m)) =>
      /\ retstack[m] = <<>>
      /\ frames[m] = <<>>
      /\ envstack[m] = <<1>>
      /\ heap[m][1].proto = 0 /\ ~heap[m][1].freed

\* The main program has run to its end on the VM as configured, through
\* blocks and calls.
C6_Witness ==
  /\ prog = "MainProgram" /\ Terminated(MODE_GC)
  /\ {"BLOCK", "CALL"} \subseteq completed[MODE_GC]

ExprKinds ==
  {"NIL", "INTEGER", "VARIABLE", "LAMBDA", "DECLARE", "CALL", "IF", "BLOCK",
   "EMPTY_BLOCK", "DEBUG_PRINT"}

IllTyped ==
  {"Redeclare", "ArityMismatch", "ArityPrint", "NotCallable", "NotCallableNil", "DynamicName", "DynamicNameEscaped", "EscapedBlock",
   "DuplicateParams", "UnknownName"}

WellTyped == Compiled \ IllTyped

C8_AlwaysTerminates ==
  \A m \in Modes :
    (prog \in WellTyped /\ ~danglingRead[m] /\ ~Running(m))
      => (Terminated(m) /\ Len(evalstack[m]) = 1)

(***************************************************************************)
(* C8, amended.  Whenever the run of a compiled expression terminates      *)
(* normally (retstack empty, pc done), exactly one value is on the value   *)
(* stack.                                                                  *)
(***************************************************************************)
C8_OneValueAtTermination ==
  \A m \in Modes : (prog \in Compiled /\ Terminated(m)) => Len(evalstack[m]) = 1

C8_Witness ==
  /\ prog = "Scenario4" /\ Terminated(MODE_GC)
  /\ evalstack[MODE_GC] = <<NilValue>>

(***************************************************************************)
(* C9.  A compiled IF runs exactly one branch.  IF pops the condition and  *)
(* goes to the first then-instruction when it is truthy and to index       *)
(* p_else + 1 when it is NIL; ELSE goes to the index just past the else    *)
(* body; and when control arrives there, instructions of exactly the       *)
(* chosen branch have run and the stack is the stack at the start of the   *)
(* IF expression plus one value.                                           *)
(***************************************************************************)
InFrame(m, k) == k.depth = Len(retstack[m]) /\ k.site.blob = pc[m].blob

ThenRan(k) == \E n \in k.ran : k.site.ifpos < n /\ n < k.site.elsepos

ElseRan(k) == \E n \in k.ran : k.site.elsepos < n /\ n < k.site.last

C9_IfRunsOneBranch ==
  [][\A m \in Modes : Stepped(m) =>
       /\ \A k \in {k \in marks[m] : k.site.type = "IF" /\ InFrame(m, k)} :
            /\ pc[m].index = k.site.ifpos =>
                 /\ pc'[m].index = IF truthy(back(evalstack[m]))
                                   THEN k.site.ifpos + 1 ELSE k.site.elsepos + 1
                 /\ evalstack'[m] = pop_back(evalstack[m])
            /\ pc[m].index = k.site.elsepos =>
                 /\ pc'[m].index = k.site.last
                 /\ evalstack'[m] = evalstack[m]
       /\ \A k \in {k \in marks'[m] : k.site.type = "IF"} :
            (k.depth = Len(retstack'[m]) /\ k.site.blob = pc'[m].blob
             /\ k.site.last = pc'[m].index) =>
              /\ k.site.ifpos \in k.ran
              /\ truthy(k.cond) => (ThenRan(k) /\ ~ElseRan(k) /\ k.site.elsepos \in k.ran)
              /\ ~truthy(k.cond) => (ElseRan(k) /\ ~ThenRan(k) /\ k.site.elsepos \notin k.ran)
              /\ Len(evalstack'[m]) = Len(k.stk) + 1
              /\ SubSeq(evalstack'[m], 1, Len(k.stk)) = k.stk]_vars

\* An IF whose condition was INTEGER 0 has run its then-branch to the end.
C9_Witness ==
  \E k \in marks[MODE_GC] :
    /\ k.site.type = "IF" /\ AtEnd(MODE_GC, k) /\ fault[MODE_GC] = ""
    /\ k.cond = IntegerValue(I(0))
    /\ ThenRan(k)

(***************************************************************************)
(* C10.  CALL(n) on a closure with n parameters binds parameter j to the   *)
(* j-th argument in source order, removes the callee and the n arguments,  *)
(* and enters the callee's blob; the return resumes at the instruction     *)
(* after that CALL with envstack as it was at the CALL and the callee's    *)
(* final value on the caller's stack below the arguments.  frames is a     *)
(* stack, so calls return last-in first-out.                               *)
(***************************************************************************)
C10_CallAndReturn ==
  [][\A m \in Modes :
       /\ (Entered(m) /\ Stepped(m)) =>
            LET n == get(pc[m]).integer
                f == back(evalstack[m]).obj
                args == heap[m][f].blob.args
                env == back(envstack'[m])
                size == Len(evalstack[m]) - 1
            IN /\ n = Len(args)
               /\ DOMAIN heap'[m][env].mapping = {args[j] : j \in 1..n}
               /\ \A j \in 1..n : heap'[m][env].mapping[args[j]] = evalstack[m][size - n + j]
               /\ evalstack'[m] = SubSeq(evalstack[m], 1, size - n)
               /\ pc'[m] = ProgramCounter(heap[m][f].blob, 0)
               /\ retstack'[m] = Append(retstack[m], incr(pc[m]))
       /\ (Returned(m) /\ Stepped(m)) =>
            /\ frames[m] # <<>>
            /\ pc'[m] = back(frames[m]).ret
            /\ envstack'[m] = back(frames[m]).envs
            /\ evalstack'[m] = Append(back(frames[m]).below, back(evalstack[m]))]_vars

\* f(10, 20) has printed its first parameter, g(b) called from inside it
\* has printed the second, and both calls have returned.
C10_Witness ==
  /\ prog = "TwoArgs" /\ Terminated(MODE_GC)
  /\ out[MODE_GC] = <<"INTEGER(10)", "INTEGER(20)">>

(***************************************************************************)
(* C11.  declare(k, v) on the current environment fails with "Already      *)
(* declared name k" exactly when k is in that environment's own mapping,   *)
(* and then changes no object; a binding of k in an ancestor does not make *)
(* it fail, and after a declare that succeeded get(k) from the environment *)
(* yields v while every other object, so get(k) from the parent, is as     *)
(* before.  A CALL whose callee has a parameter name twice fails at the    *)
(* call with the same error.  block(declare(x, 1), declare(x, 2)) and the  *)
(* call with duplicate parameters never reach normal termination.          *)
(***************************************************************************)
AlreadyDeclared(key) == "Already declared name " \o key

HasDuplicates(args) == \E i, j \in DOMAIN args : i < j /\ args[i] = args[j]

C11_DeclareOwnMappingOnly ==
  [][\A m \in Modes :
         /\ prog \in {"Redeclare", "DuplicateParams"} =>
              ~(fault'[m] = "" /\ retstack'[m] = <<>> /\ done(pc'[m]))
         /\ (Handled(m) /\ ~done(pc[m]) /\ get(pc[m]).type = "DECLARE_VARIABLE"
             /\ evalstack[m] # <<>>) =>
              LET t == back(envstack[m])
                  k == get(pc[m]).name
                  v == back(evalstack[m])
              IN IF k \in DOMAIN heap[m][t].mapping
                 THEN fault'[m] = AlreadyDeclared(k) /\ heap'[m] = heap[m]
                 ELSE /\ fault'[m] = ""
                      /\ TableGet(heap'[m], t, k, FALSE) = [kind |-> "value", value |-> v]
                      /\ DOMAIN heap'[m][t].mapping = DOMAIN heap[m][t].mapping \cup {k}
                      /\ \A o \in DOMAIN heap[m] \ {t} : heap'[m][o] = heap[m][o]
                      /\ heap[m][t].proto # 0 =>
                           TableGet(heap'[m], heap[m][t].proto, k, TRUE)
                             = TableGet(heap[m], heap[m][t].proto, k, TRUE)
         /\ (Handled(m) /\ ~done(pc[m]) /\ get(pc[m]).type = "CALL"
             /\ evalstack[m] # <<>> /\ back(evalstack[m]).type = "FUNCTION"
             /\ Len(retstack[m]) < MaxDepth
             /\ get(pc[m]).integer = Len(heap[m][back(evalstack[m]).obj].blob.args)
             /\ HasDuplicates(heap[m][back(evalstack[m]).obj].blob.args)) =>
              \E j \in DOMAIN heap[m][back(evalstack[m]).obj].blob.args :
                fault'[m] = AlreadyDeclared(heap[m][back(evalstack[m]).obj].blob.args[j])]_vars

\* The inner block has declared x over the outer x and printed its own, the
\* outer block has printed the outer one.
C11_Witness ==
  /\ prog = "Shadowing" /\ Terminated(MODE_GC)
  /\ out[MODE_GC] = <<"INTEGER(2)", "INTEGER(1)">>

(***************************************************************************)
(* C12.  PUSH_VARIABLE k pushes the value bound to k in the nearest        *)
(* environment of the chain current environment, parent, grandparent, ...  *)
(* that binds k, and raises "No such name k", pushing nothing, exactly     *)
(* when no environment of the chain binds k.                               *)
(***************************************************************************)
\* The chain of Table t along proto, nearest first.
RECURSIVE ChainOf(_, _)
ChainOf(h, t) == <<t>> \o (IF h[t].proto = 0 THEN <<>> ELSE ChainOf(h, h[t].proto))

\* The positions in the chain whose Table binds key.
Binders(h, chain, key) == {i \in DOMAIN chain : key \in DOMAIN h[chain[i]].mapping}

C12_GetNearestBinding ==
  [][\A m \in Modes :
       (Handled(m) /\ ~done(pc[m]) /\ get(pc[m]).type = "PUSH_VARIABLE") =>
         LET k == get(pc[m]).name
             chain == ChainOf(heap[m], back(envstack[m]))
             bs == Binders(heap[m], chain, k)
         IN IF bs = {}
            THEN fault'[m] = NoSuchName(k) /\ evalstack'[m] = evalstack[m]
            ELSE LET i == CHOOSE i \in bs : \A j \in bs : i <= j
                 IN /\ fault'[m] = ""
                    /\ evalstack'[m] = Append(evalstack[m], heap[m][chain[i]].mapping[k])]_vars

(***************************************************************************)
(* C13.  CALL(n) on a closure of k # n parameters raises "Expected k args  *)
(* but got n": the environment made for the call has no binding, pc stays  *)
(* in the caller's blob, and nothing is printed.  The run of               *)
(* call(lambda([a, b], nil), [int 1]) prints nothing, never terminates     *)
(* normally and stops with that error only.                                *)
(***************************************************************************)
C13_ArityError ==
  [][\A m \in Modes :
       /\ (Handled(m) /\ ~done(pc[m]) /\ get(pc[m]).type = "CALL"
           /\ evalstack[m] # <<>> /\ back(evalstack[m]).type = "FUNCTION"
           /\ Len(retstack[m]) < MaxDepth
           /\ get(pc[m]).integer # Len(heap[m][back(evalstack[m]).obj].blob.args)) =>
            /\ fault'[m] = ArityMessage(Len(heap[m][back(evalstack[m]).obj].blob.args),
                                        get(pc[m]).integer)
            /\ \A o \in DOMAIN heap'[m] \ DOMAIN heap[m] : heap'[m][o].mapping = EmptyMapping
            /\ \A o \in DOMAIN heap[m] : heap'[m][o] = heap[m][o]
            /\ pc'[m].blob = pc[m].blob
            /\ out'[m] = out[m]
       /\ prog \in {"ArityMismatch", "ArityPrint"} =>
            /\ out'[m] = <<>>
            /\ fault'[m] \in {"", "Expected 2 args but got 1"}
            /\ ~(fault'[m] = "" /\ retstack'[m] = <<>> /\ done(pc'[m]))]_vars

\* The call of the two-parameter lambda with one argument has failed.
C13_Witness ==
  /\ prog = "ArityMismatch"
  /\ fault[MODE_GC] = "Expected 2 args but got 1"
  /\ out[MODE_GC] = <<>>

(***************************************************************************)
(* C14.  CALL with a Value on top of the value stack whose tag is not      *)
(* FUNCTION raises "Not calllable: <tag>" and changes neither pc, retstack,*)
(* envstack, evalstack, the managed-object list nor any object.            *)
(***************************************************************************)
C14_NotCallable ==
  [][\A m \in Modes :
       (Handled(m) /\ ~done(pc[m]) /\ get(pc[m]).type = "CALL"
        /\ evalstack[m] # <<>> /\ back(evalstack[m]).type # "FUNCTION") =>
         /\ fault'[m] = "Not calllable: " \o back(evalstack[m]).type
         /\ pc'[m] = pc[m]
         /\ retstack'[m] = retstack[m]
         /\ envstack'[m] = envstack[m]
         /\ evalstack'[m] = evalstack[m]
         /\ allManagedObjects'[m] = allManagedObjects[m]
         /\ heap'[m] = heap[m]]_vars

\* call(int 3, []) and call(nil, [nil]) have failed on their callee.
C14_Witness ==
  \/ prog = "NotCallable" /\ fault[MODE_GC] = "Not calllable: INTEGER"
                          /\ evalstack[MODE_GC] = <<IntegerValue(I(3))>>
  \/ prog = "NotCallableNil" /\ fault[MODE_GC] = "Not calllable: NIL"
                             /\ evalstack[MODE_GC] = <<NilValue, NilValue>>

(***************************************************************************)
(* C15.  A name declared inside a block or a call is invisible outside it. *)
(* When control arrives just past an expression (a block at its BLOCK_END, *)
(* a call at its return), envstack is what it was at the expression's      *)
(* first instruction; PUSH_FUNCTION captures the current environment, so   *)
(* closures made under different current environments capture different    *)
(* ones; and a PUSH_VARIABLE for a name that no environment of the current *)
(* chain binds, bound only in environments that are no longer on envstack, *)
(* raises the name error.                                                  *)
(***************************************************************************)
\* The names bound in Tables that are not on the envstack of VM m.
PoppedNames(m) ==
  UNION {DOMAIN heap[m][o].mapping :
           o \in {o \in DOMAIN heap[m] :
                    /\ heap[m][o].kind = "Table"
                    /\ \A i \in DOMAIN envstack[m] : envstack[m][i] # o}}

C15_BlockScope ==
  [][\A m \in Modes : Handled(m) =>
       /\ \A k \in marks'[m] :
            (fault'[m] = "" /\ k.depth = Len(retstack'[m]) /\ k.site.blob = pc'[m].blob
             /\ k.site.last = pc'[m].index) => envstack'[m] = k.envs
       /\ (~done(pc[m]) /\ get(pc[m]).type = "PUSH_FUNCTION") =>
            heap'[m][back(evalstack'[m]).obj].env = back(envstack[m])
       /\ (~done(pc[m]) /\ get(pc[m]).type = "PUSH_VARIABLE"
           /\ get(pc[m]).name \notin ChainNames(heap[m], back(envstack[m]))
           /\ get(pc[m]).name \in PoppedNames(m)) =>
            fault'[m] = NoSuchName(get(pc[m]).name)]_vars

(***************************************************************************)
(* C16.  The value of a non-empty BLOCK is the value of its last child.    *)
(* In the run of a compiled expression: when BLOCK_END executes, the last child has just been completed, it was *)
(* started on the stack the block was started on, the value stack is that  *)
(* stack plus one value, and BLOCK_END leaves it so.  A POP executes on    *)
(* the stack of the innermost block around it plus one value and leaves    *)
(* that block's stack.  The empty BLOCK pushes NIL and creates no object   *)
(* and no environment.                                                     *)
(***************************************************************************)
\* The marks of the non-empty blocks of the running frame that have
\* instruction n between their BLOCK_START and their BLOCK_END.
BlocksAround(m, n) ==
  {k \in marks[m] : /\ InFrame(m, k) /\ SiteKind(k.site) = "BLOCK"
                    /\ k.site.first < n /\ n < k.site.last - 1}

C16_BlockValue ==
  [][\A m \in Modes : (prog \in Compiled /\ Stepped(m) /\ ~done(pc[m])) =>
       /\ \A k \in {k \in marks[m] : InFrame(m, k) /\ SiteKind(k.site) = "BLOCK"
                                     /\ pc[m].index = k.site.last - 1} :
            /\ get(pc[m]).type = "BLOCK_END"
            /\ \E c \in marks[m] : /\ AtEnd(m, c) /\ c.site.first > k.site.first
                                   /\ c.stk = k.stk
            /\ Len(evalstack[m]) = Len(k.stk) + 1
            /\ SubSeq(evalstack[m], 1, Len(k.stk)) = k.stk
            /\ evalstack'[m] = evalstack[m]
       /\ get(pc[m]).type = "POP" =>
            /\ BlocksAround(m, pc[m].index) # {}
            /\ \A k \in BlocksAround(m, pc[m].index) :
                 (\A j \in BlocksAround(m, pc[m].index) : j.site.first <= k.site.first) =>
                   /\ Len(evalstack[m]) = Len(k.stk) + 1
                   /\ evalstack'[m] = k.stk
       /\ (\E r \in Sites(prog) : /\ r.blob = pc[m].blob /\ r.first = pc[m].index
                                   /\ SiteKind(r) = "EMPTY_BLOCK") =>
            /\ evalstack'[m] = Append(evalstack[m], NilValue)
            /\ envstack'[m] = envstack[m]
            /\ heap'[m] = heap[m]
            /\ allManagedObjects'[m] = allManagedObjects[m]]_vars

\* A block of four children has ended with the NIL of its last child, not
\* with the closures of its first ones, and an empty block has been run.
C16_Witness ==
  /\ prog = "TwoArgs" /\ Terminated(MODE_GC)
  /\ evalstack[MODE_GC] = <<NilValue>>
  /\ "EMPTY_BLOCK" \in completed[MODE_GC]

IsPrefix(s, t) == Len(s) <= Len(t) /\ SubSeq(t, 1, Len(s)) = s

Scenario4Lines == <<"INTEGER(777777)", "INTEGER(9999999999)", "NIL">>

EvalOrderLines == <<"INTEGER(1)", "INTEGER(2)", "INTEGER(3)", "INTEGER(4)">>

C18_EvaluationOrder ==
  [][\A m \in Modes : (prog \in Compiled /\ Handled(m)) =>
       /\ ~done(pc[m]) =>
            /\ \A k \in {k \in marks[m] : InFrame(m, k)} : \A j \in k.ran : j < pc[m].index
            /\ \A k \in {k \in marks[m] : InFrame(m, k) /\ k.site.type = "CALL"
                                          /\ pc[m].index = k.site.last - 1} :
                 /\ get(pc[m]).type = "CALL"
                 /\ Len(evalstack[m]) = Len(k.stk) + get(pc[m]).integer + 1
                 /\ SubSeq(evalstack[m], 1, Len(k.stk)) = k.stk
                 /\ \E c \in marks[m] :
                      /\ AtEnd(m, c) /\ c.site.first >= k.site.first /\ c # k
                      /\ c.site.first = k.site.first => get(pc[m]).integer = 0
                      /\ c.stk = SubSeq(evalstack[m], 1, Len(evalstack[m]) - 1)
       /\ out'[m] = IF ~done(pc[m]) /\ get(pc[m]).type = "DEBUG_PRINT" /\ fault'[m] = ""
                    THEN Append(out[m], PrintLine(back(evalstack[m]))) ELSE out[m]
       /\ prog = "Scenario4" =>
            /\ IsPrefix(out'[m], Scenario4Lines)
            /\ (fault'[m] = "" /\ retstack'[m] = <<>> /\ done(pc'[m])) => out'[m] = Scenario4Lines
       /\ prog = "EvalOrder" =>
            /\ IsPrefix(out'[m], EvalOrderLines)
            /\ (fault'[m] = "" /\ retstack'[m] = <<>> /\ done(pc'[m])) => out'[m] = EvalOrderLines]_vars

\* Scenario 4 has run to its end and printed its three lines.
C18_Witness ==
  /\ prog = "Scenario4" /\ Terminated(MODE_GC)
  /\ out[MODE_GC] = <<"INTEGER(777777)", "INTEGER(9999999999)", "NIL">>

(***************************************************************************)
(* C19.  A handler that finds the value stack too short (POP, IF,          *)
(* DECLARE_VARIABLE or DEBUG_PRINT on an empty stack, CALL without a       *)
(* callee or without its arguments), or an IF or ELSE whose operand lies   *)
(* outside the blob, makes the run fail with an error that error() raises, *)
(* as INVALID and TAILCALL do: the step neither completes nor crashes.     *)
(***************************************************************************)
\* What error() has raised when the run stopped on malformed bytecode.
RaisedError(msg) == msg \notin {"", "SIGSEGV", "length_error", "bad_alloc"}

\* The instruction VM m is about to execute is malformed bytecode.
Malformed(m) ==
  LET i == get(pc[m])
  IN \/ i.type \in {"INVALID", "TAILCALL"}
     \/ i.type \in UnderflowTypes /\ evalstack[m] = <<>>
     \/ i.type = "CALL" /\ ShortOfArguments(m)
     \/ i.type \in {"IF", "ELSE"}
          /\ (i.integer < 0 \/ i.integer > Len(pc[m].blob.instructions))

C19_MalformedBytecodeFails ==
  [][\A m \in Modes :
       (Handled(m) /\ ~done(pc[m]) /\ Malformed(m)) => RaisedError(fault'[m])]_vars

(***************************************************************************)
(* C20.  For every blob compile produces, in every reachable state of its  *)
(* run: every IF and ELSE operand of the blob and of the blobs of its      *)
(* lambdas lies in 0 .. instructions.size(); the value stack is not empty  *)
(* when POP, IF, DECLARE_VARIABLE, DEBUG_PRINT or CALL is about to         *)
(* execute and holds at least n + 1 values when CALL(n) is about to        *)
(* execute on a closure of n parameters; and envstack is not empty when    *)
(* BLOCK_START, BLOCK_END, DECLARE_VARIABLE, PUSH_VARIABLE, PUSH_FUNCTION  *)
(* or a return is about to execute.                                        *)
(***************************************************************************)
\* Blob b and the blobs of the PUSH_FUNCTION instructions in it.
RECURSIVE AllBlobs(_)
AllBlobs(b) ==
  {b} \cup UNION {AllBlobs(b.instructions[k].blob) :
                    k \in {k \in DOMAIN b.instructions :
                             b.instructions[k].type = "PUSH_FUNCTION"}}

OperandsInRange(b) ==
  \A k \in DOMAIN b.instructions :
    b.instructions[k].type \in {"IF", "ELSE"} =>
      /\ 0 <= b.instructions[k].integer
      /\ b.instructions[k].integer <= Len(b.instructions)

\* The compiled inputs whose jump operands are all in range.
InRange == {p \in Compiled : \A b \in AllBlobs(BlobOf(p)) : OperandsInRange(b)}

C20_WellFormedBytecode ==
  \A m \in Modes : prog \in Compiled =>
    /\ prog \in InRange
    /\ pc[m].blob \in AllBlobs(BlobOf(prog))
    /\ (phase[m] = "exec" /\ Running(m)) =>
         IF done(pc[m]) THEN envstack[m] # <<>> /\ retstack[m] # <<>>
         ELSE LET i == get(pc[m])
              IN /\ i.type \in UnderflowTypes => evalstack[m] # <<>>
                 /\ (i.type = "CALL" /\ back(evalstack[m]).type = "FUNCTION"
                     /\ i.integer = Len(heap[m][back(evalstack[m]).obj].blob.args)) =>
                      Len(evalstack[m]) >= i.integer + 1
                 /\ i.type \in {"BLOCK_START", "BLOCK_END", "DECLARE_VARIABLE",
                                "PUSH_VARIABLE", "PUSH_FUNCTION"} => envstack[m] # <<>>

\* CALL(2) is about to execute on the closure of two parameters, with the
\* two arguments and the callee on the value stack.
C20_Witness ==
  /\ prog = "TwoArgs" /\ phase[MODE_GC] = "exec" /\ Running(MODE_GC)
  /\ ~done(pc[MODE_GC])
  /\ get(pc[MODE_GC]).type = "CALL" /\ get(pc[MODE_GC]).integer = 2
  /\ Len(evalstack[MODE_GC]) = 3
  /\ back(evalstack[MODE_GC]).type = "FUNCTION"

(***************************************************************************)
(* C21.  Every managed object is WHITE whenever a handler or a return step *)
(* is about to execute, and whenever a collection is about to start:       *)
(* objects are created WHITE, and markAndSweep, which paints the objects   *)
(* it reaches BLACK, ends with every survivor repainted WHITE.             *)
(***************************************************************************)
C21_WhiteBetweenCollections ==
  \A m \in Modes : \A k \in DOMAIN allManagedObjects[m] :
    /\ allManagedObjects[m][k] \in DOMAIN heap[m]
    /\ heap[m][allManagedObjects[m][k]].color = "WHITE"

\* A collection has run and kept four objects, a handler is about to
\* execute, and the marking of the next collection would paint objects
\* BLACK.
C21_Witness ==
  /\ collections[MODE_GC] > 0
  /\ phase[MODE_GC] = "exec" /\ Running(MODE_GC)
  /\ Len(allManagedObjects[MODE_GC]) >= 4
  /\ \E o \in DOMAIN heap[MODE_GC] : Mark(MODE_GC).h[o].color = "BLACK"

(***************************************************************************)
(* C22.  Every markAndSweep of the VM leaves threshold = 3 * w + C, where  *)
(* w is the workDone the collection counted and C is 1000, so threshold is *)
(* at least 1000 after any collection.                                     *)
(***************************************************************************)
\* workDone at the end of the markAndSweep that starts in this state.
WorkDone(m) == Mark(m).work + Len(allManagedObjects[m])

C22_ThresholdAfterCollection ==
  [][\A m \in Modes :
       Collecting(m) =>
         /\ threshold'[m] = 3 * WorkDone(m) + 1000
         /\ threshold'[m] >= 1000]_vars

(***************************************************************************)
(* C23.  A collection runs only at the top of an iteration of the loop of  *)
(* run(): while a handler or the return step executes, no object is        *)
(* deleted and none leaves allManagedObjects, and the objects that         *)
(* BLOCK_START, PUSH_FUNCTION and CALL allocate are alive when the handler *)
(* ends.                                                                   *)
(***************************************************************************)
C23_NoCollectionInHandler ==
  [][\A m \in Modes :
       phase[m] = "exec" =>
         /\ \A o \in DOMAIN heap[m] :
              o \in DOMAIN heap'[m] /\ heap'[m][o].freed = heap[m][o].freed
         /\ \A o \in DOMAIN heap'[m] \ DOMAIN heap[m] : ~heap'[m][o].freed
         /\ IsPrefix(allManagedObjects[m], allManagedObjects'[m])]_vars

\* In threshold mode, where no collection has run: BLOCK_START has just
\* allocated a Table while an unreachable object that is still managed and
\* not deleted sits in the heap.
C23_Witness ==
  /\ phase[PROD] = "gc" /\ steps[PROD] > 0 /\ fault[PROD] = ""
  /\ collections[PROD] = 0
  /\ envstack[PROD] # <<>>
  /\ back(envstack[PROD]) = back(allManagedObjects[PROD])
  /\ \E o \in Managed(PROD) : o \notin Reachable(PROD) /\ ~heap[PROD][o].freed

(***************************************************************************)
(* C24.  In gclang.cc an object that make() has returned is not deleted    *)
(* while the program holds a pointer to it that it will still dereference: *)
(* the operands of the equals calls of main, the values of the Literals    *)
(* and the locals r and c all address live objects, at every position of   *)
(* main, and no deleted object is ever dereferenced.                       *)
(***************************************************************************)
\* The pointers main holds and dereferences later.
Held(g) ==
  {g.temps[k] : k \in DOMAIN g.temps} \cup {g.statements[k] : k \in DOMAIN g.statements}
    \cup {g.lits[k] : k \in DOMAIN g.lits} \cup ({g.r, g.c} \ {0})

C24_MadeObjectStaysAlive ==
  /\ \A p \in Held(gclang) : p \in DOMAIN gclang.objects /\ ~gclang.objects[p].freed
  /\ ~gclang.danglingUse

(***************************************************************************)
(* C25.  In gclang.cc, when Block::eval has returned, it has evaluated     *)
(* each statement of the Block exactly once, in order (no statement at all *)
(* for an empty Block), and its result is the value of the last statement, *)
(* or nil for an empty Block.                                              *)
(***************************************************************************)
C25_EachStatementOnce ==
  gclang.pc \notin {"l313", "l313lit", "l315"} =>
    /\ gclang.evals = [k \in 1..Len(gclang.statements) |-> k]
    /\ gclang.r = IF gclang.statements = <<>> THEN nil ELSE back(gclang.statements)

====
